---------------------------- MODULE Spec2Model ----------------------------
(***************************************************************************)
(* Execution core of argon-lang: the mark-and-sweep collector (gc.rs),     *)
(* the thread manager and its channels (threading.rs, runtime.rs), the     *)
(* bytecode VM (bytecode_vm.rs) and the tree-walking interpreter's scope   *)
(* and defer machinery (interpreter.rs).  Each component has its own       *)
(* specification over the shared variable list; the variables of the       *)
(* other components stay at their constructed values.                      *)
(***************************************************************************)
EXTENDS Integers, Sequences, FiniteSets, TLC

VARIABLES
    \* ---- GarbageCollector (gc.rs:35-41) ----
    heap,        \* ObjectId -> [marked, data]
    next_id,
    roots,       \* Vec<ObjectId>
    allocated,
    gc_op,       \* name of the last collector operation (observer)
    gc_ret,      \* id returned by the last alloc, 0 otherwise (observer)
    gc_pre,      \* heap as it was when the last collect() was entered (observer)
    gc_since     \* alloc calls made since collect() last ran (observer)

gcVars == <<heap, next_id, roots, allocated, gc_op, gc_ret, gc_pre, gc_since>>

VARIABLES
    \* ---- ThreadManager channels (threading.rs:117-123) ----
    next_channel_id,
    senders,     \* keys of ThreadManager::senders
    receivers,   \* keys of ThreadManager::receivers
    chan,        \* channel id -> [queue, nsenders]: the mpsc channel behind the id
    rx_lock,     \* channel id -> holder of the receiver's Mutex ("free" or a thread)
    prod,        \* producer threads: [ch, plan, sent, done], each owning a cloned sender
    main_pc,     \* where the thread that owns the manager is: <<"idle">> or <<"recv", ch>>
    recvd,       \* channel id -> values channel_recv has returned, in order (observer)
    sentlog,     \* channel id -> values accepted by send, in order (observer)
    sentBy,      \* channel id -> the senders that have sent on it (observer)
    ch_ret       \* outcome of the last channel operation (observer)

chVars == <<next_channel_id, senders, receivers, chan, rx_lock, prod, main_pc,
            recvd, sentlog, sentBy, ch_ret>>

VARIABLES
    \* ---- workers of the ThreadManager (threading.rs:96-123) and the
    \* ---- runtime's thread table (runtime.rs:479) ----
    next_worker_id,
    workers,     \* worker id -> WorkerHandle [handle]: TRUE is Some(JoinHandle)
    wthread,     \* worker id -> the OS thread behind it: [status, outcome]
    THREADS,     \* Vec<Option<JoinHandle<i64>>>: TRUE is Some(handle)
    rthread,     \* index -> the OS thread behind THREADS[index]: [status, outcome]
    jn_pc,       \* the joining thread: <<"idle">> or <<api, id>> while blocked in a join
    joins,       \* worker id -> outcomes of the joins completed on it, in order (observer)
    rjoins       \* THREADS index -> values argon_thread_join returned for it (observer)

jnVars == <<next_worker_id, workers, wthread, THREADS, rthread, jn_pc, joins, rjoins>>

VARIABLES
    \* ---- BytecodeVM (bytecode_vm.rs:105-112) ----
    functions,   \* Vec<CompiledFunc>
    func_map,    \* name -> index into functions (0-based, as in the source)
    vm_stack,    \* Vec<VMValue>
    frames,      \* Vec<CallFrame>: [func_idx, ip, bp], all 0-based
    vm_bp,       \* BytecodeVM::bp
    vm_pc,       \* "idle", "running" (inside call/run) or "panicked"
    vm_cur,      \* the host call being executed: [name, args]
    vm_out,      \* values printed by the Print opcode, in order
    vm_log,      \* completed host calls [name, args, result], in order (observer)
    frame_obs,   \* per frame: stack depth and contents below its arguments when it
                 \* was created, and whether a Call created it (observer)
    vm_obs       \* what the last step was, with the returning frame's frame_obs (observer)

vmVars == <<functions, func_map, vm_stack, frames, vm_bp, vm_pc, vm_cur, vm_out,
            vm_log, frame_obs, vm_obs>>

VARIABLES
    \* ---- Interpreter (interpreter.rs:80-101) ----
    it_ast,      \* the program given to run: its function definitions
    interp,      \* the Interpreter: [stack, globals, functions, out, ev, next_scope]
    it_pc,       \* "new" or, after run, "done"
    it_ret,      \* what run returned
    it_call      \* <<name, val>> of the last set_var call made directly, or <<>>

itVars == <<it_ast, interp, it_pc, it_ret, it_call>>

VARIABLES
    \* ---- JitCompiler (jit.rs:22-39) ----
    jit,         \* [compiled_functions, hot_threshold, call_counts, enabled]
    jit_ret,     \* the last operation on the compiler and what it returned
    jit_calls,   \* observer: per name, the record_call calls made so far
    jit_done,    \* observer: the names whose compile_simple_function succeeded
    jit_on       \* observer: the argument of the last set_enabled (true at first)

jitVars == <<jit, jit_ret, jit_calls, jit_done, jit_on>>

VARIABLES
    \* ---- TraceRecorder (jit.rs:541-555) ----
    tr,          \* [is_recording, current_trace, traces, next_trace_id,
                 \*  loop_threshold, loop_counts]
    tr_ret,      \* the last operation on the recorder and what it returned
    tr_loops,    \* observer: per location, the record_loop calls made so far
    tr_active,   \* observer: a recording was started and not yet stopped
    tr_since     \* observer: the operations passed to record_op since the
                 \* last recording started

trVars == <<tr, tr_ret, tr_loops, tr_active, tr_since>>

VARIABLES
    \* ---- runtime mutexes (runtime.rs:480) ----
    MUTEXES,     \* the static Vec: per mutex 0 (free) or the thread holding its guard
    mu_pc,       \* per thread: where it is inside argon_mutex_lock, or idle
    mu_ret,      \* per thread: its last call, the value returned and the number
                 \* of mutexes there were when it returned
    mu_held      \* observer: per thread and mutex, lock calls that returned 1
                 \* minus the unlock calls made after them

muVars == <<MUTEXES, mu_pc, mu_ret, mu_held>>

VARIABLES
    \* ---- runtime atomics (runtime.rs:481) ----
    ATOMICS,     \* the static Vec: the value of each AtomicI64
    at_pc,       \* per thread: idle, or past its atomic access, with the value it
                 \* returns and the position of the access in at_log (0: none)
    at_log,      \* observer: the accesses to the atomics in the order they took effect
    at_init      \* observer: the value each atomic was created with

atVars == <<ATOMICS, at_pc, at_log, at_init>>

VARIABLES
    \* ---- module loading (interpreter.rs:91-92, 215-305) ----
    ld_fs,          \* the files there are: file name -> its top-level items
    loaded_modules, \* Interpreter::loaded_modules
    ld_functions,   \* the names in Interpreter::functions
    ld_stack,       \* the calls of run in progress: [file, i] with i the next item
    ld_pc,          \* "new", "running", then "done" or "err"
    ld_runs,        \* observer: per file, how often run went over its items
    ld_main_calls   \* observer: how often run called main

ldVars == <<ld_fs, loaded_modules, ld_functions, ld_stack, ld_pc, ld_runs, ld_main_calls>>

\* tagged words of the self-hosted runtime (src/self-host/runtime.rs)
VARIABLES
    tg_in,       \* the i64 handed to the runtime
    tg_tagged,   \* <<from_int(tg_in)>> once computed, <<>> before
    tg_back,     \* <<to_int(from_int(tg_in))>> once computed
    tg_isint,    \* <<is_int(from_int(tg_in))>> once computed
    tg_class     \* <<the set of classes tg_in falls in>> once computed
tgVars == <<tg_in, tg_tagged, tg_back, tg_isint, tg_class>>

\* native code of the JIT module (src/src/jit.rs)
VARIABLES
    jc_module,   \* name -> the instructions of the finalized function
    jc_body,     \* name -> the SimpleFunction of the last successful compile (observer)
    jc_ret       \* <<>> or <<[name, arg, ret]>> of the last call_compiled
jcVars == <<jc_module, jc_body, jc_ret>>

\* one collect() of the collector, call by call (gc.rs:125-187)
VARIABLES
    mk_heap,     \* ObjectId -> [marked, data]: GarbageCollector::heap
    mk_roots,    \* GarbageCollector::roots
    mk_stack,    \* the loops in progress: [refs, i], mark_phase's below those of mark
    mk_pc,       \* "new", "marking", "done"
    mk_visits    \* observer: per id, how often mark collected the object's children
mkVars == <<mk_heap, mk_roots, mk_stack, mk_pc, mk_visits>>

\* threads that own a clone of a ChannelReceiver (threading.rs:66-94)
VARIABLES
    rc_threads   \* per thread [ch, call, pc, ret]: the channel of its clone, the
                 \* call it makes ("recv" or "recv_timeout"), where it is
                 \* ("start", "waiting", "done") and what the call returned
rcVars == <<rc_threads>>

\* the components added to the first five
extVars == <<jitVars, trVars, muVars, atVars, ldVars, tgVars, jcVars, mkVars, rcVars>>

vars == <<gcVars, chVars, jnVars, vmVars, itVars, extVars>>

\* What the operations of one component leave alone: the other components.
gcFrame == <<chVars, jnVars, vmVars, itVars, extVars>>
chFrame == <<gcVars, jnVars, vmVars, itVars, extVars>>
jnFrame == <<gcVars, chVars, vmVars, itVars, extVars>>
vmFrame == <<gcVars, chVars, jnVars, itVars, extVars>>
itFrame == <<gcVars, chVars, jnVars, vmVars, extVars>>
coreVars == <<gcVars, chVars, jnVars, vmVars, itVars>>
jitFrame == <<coreVars, trVars, muVars, atVars, ldVars, tgVars, jcVars, mkVars, rcVars>>
trFrame == <<coreVars, jitVars, muVars, atVars, ldVars, tgVars, jcVars, mkVars, rcVars>>
muFrame == <<coreVars, jitVars, trVars, atVars, ldVars, tgVars, jcVars, mkVars, rcVars>>
atFrame == <<coreVars, jitVars, trVars, muVars, ldVars, tgVars, jcVars, mkVars, rcVars>>
ldFrame == <<coreVars, jitVars, trVars, muVars, atVars, tgVars, jcVars, mkVars, rcVars>>
tgFrame == <<coreVars, jitVars, trVars, muVars, atVars, ldVars, jcVars, mkVars, rcVars>>
jcFrame == <<coreVars, jitVars, trVars, muVars, atVars, ldVars, tgVars, mkVars, rcVars>>
mkFrame == <<coreVars, jitVars, trVars, muVars, atVars, ldVars, tgVars, jcVars, rcVars>>
\* what the threads with a receiver clone leave alone besides the channels
rcFrame == <<gcVars, jnVars, vmVars, itVars, jitVars, trVars, muVars, atVars, ldVars, tgVars,
            jcVars, mkVars>>

(***************************************************************************)
(* Bounds of the exploration.                                              *)
(***************************************************************************)
MaxId == 2        \* ids the short collector specification allocates
MaxLongId == 1000 \* ids the long collector specification allocates
MaxWorkers == 1   \* workers spawned through the ThreadManager
MaxRt == 1        \* threads spawned through argon_thread_spawn
MaxJoins == 2     \* joins attempted on one worker
MaxChan == 1      \* channels created
MaxProd == 1      \* producer threads spawned
MaxPlan == 2      \* values one producer sends
MaxMainSend == 1  \* the manager's own senders add a value while fewer than this were sent
MaxCodeLen == 2   \* instructions of an enumerated callee
MaxCalls == 3     \* host calls made on one VM
MaxFrames == 4    \* call frames while the VM is stepped
MaxStack == 5     \* stack entries while the VM is stepped
MaxOut == 2       \* values printed while the VM is stepped
MaxFibN == 15     \* largest argument given to fib
MaxBody == 2      \* statements of an enumerated function body

(***************************************************************************)
(* Generic helpers.                                                        *)
(***************************************************************************)
Range(s) == {s[i] : i \in DOMAIN s}

EmptyMap == [x \in {} |-> 0]

RECURSIVE SetToSeq(_)
SetToSeq(S) ==
    IF S = {} THEN <<>>
    ELSE LET x == CHOOSE y \in S : TRUE IN <<x>> \o SetToSeq(S \ {x})

(***************************************************************************)
(*                      GARBAGE COLLECTOR  (src/src/gc.rs)                 *)
(***************************************************************************)
threshold == 1000

\* GcValue
GcNull == [t |-> "Null", v |-> 0]
GcInt(n) == [t |-> "Int", v |-> n]
GcRef(id) == [t |-> "Ref", v |-> id]

\* GcObject
GcArray(items) == [kind |-> "Array", items |-> items]
GcStruct(name, fields) == [kind |-> "Struct", name |-> name, fields |-> fields]

ObjectHeader(obj) == [marked |-> FALSE, data |-> obj]

\* filter_map(|v| if let GcValue::Ref(r) = v { Some(*r) } else { None })
RECURSIVE RefsOf(_)
RefsOf(vals) ==
    IF vals = <<>> THEN <<>>
    ELSE (IF Head(vals).t = "Ref" THEN <<Head(vals).v>> ELSE <<>>) \o RefsOf(Tail(vals))

\* The refs collected by mark for one object: array elements in order, struct
\* field values in the map's iteration order (the marked set does not depend on it).
Children(obj) ==
    IF obj.kind = "Array" THEN RefsOf(obj.items)
    ELSE LET keys == SetToSeq(DOMAIN obj.fields)
         IN RefsOf([i \in 1..Len(keys) |-> obj.fields[keys[i]]])

\* mark as it would be without the traversal of the children
mark_noChildren(h, id) ==
    IF id \notin DOMAIN h THEN h ELSE [h EXCEPT ![id].marked = TRUE]

RECURSIVE mark(_, _), markEach(_, _)
mark(h, id) ==
    IF id \notin DOMAIN h THEN h
    ELSE IF h[id].marked THEN h
    ELSE markEach([h EXCEPT ![id].marked = TRUE], Children(h[id].data))

\* for child in refs { self.mark(child) } / for root in roots { self.mark(root) }
markEach(h, ids) ==
    IF ids = <<>> THEN h ELSE markEach(mark(h, Head(ids)), Tail(ids))

\* mark_phase as it would be without the reset of the marks
mark_phase_noReset(h, rs) == markEach(h, rs)

mark_phase(h, rs) ==
    markEach([id \in DOMAIN h |-> [h[id] EXCEPT !.marked = FALSE]], rs)

sweep_phase(h) ==
    LET dead == {id \in DOMAIN h : ~h[id].marked}
    IN [id \in DOMAIN h \ dead |-> h[id]]

\* heap after collect()
Collected(h, rs) == sweep_phase(mark_phase(h, rs))

get(id) == IF id \in DOMAIN heap THEN <<"Some", heap[id].data>> ELSE <<"None">>

stats == <<Cardinality(DOMAIN heap), allocated>>

\* the threshold test of alloc as it would be with > for >=
should_collect_above(a) == a > threshold

\* if self.allocated >= self.threshold
should_collect(a) == a >= threshold

\* alloc's step of next_id as it would be if the heap's size gave the next id
following_id_by_len(id) == Cardinality(DOMAIN heap) + 2

\* self.next_id += 1
following_id(id) == id + 1

alloc(obj) ==
    LET id == next_id
        h1 == (id :> ObjectHeader(obj)) @@ heap
        a1 == allocated + 1
    IN /\ next_id' = following_id(id)
       /\ IF should_collect(a1)
          THEN heap' = Collected(h1, roots) /\ allocated' = 0 /\ gc_since' = 0
          ELSE heap' = h1 /\ allocated' = a1 /\ gc_since' = gc_since + 1
       /\ gc_op' = "alloc" /\ gc_ret' = id /\ gc_pre' = EmptyMap
       /\ UNCHANGED <<roots, gcFrame>>

add_root(id) ==
    /\ roots' = IF id \in Range(roots) THEN roots ELSE Append(roots, id)
    /\ gc_op' = "add_root" /\ gc_ret' = 0 /\ gc_pre' = EmptyMap
    /\ UNCHANGED <<heap, next_id, allocated, gc_since, gcFrame>>

remove_root(id) ==
    /\ roots' = SelectSeq(roots, LAMBDA r : r # id)
    /\ gc_op' = "remove_root" /\ gc_ret' = 0 /\ gc_pre' = EmptyMap
    /\ UNCHANGED <<heap, next_id, allocated, gc_since, gcFrame>>

clear_roots ==
    /\ roots' = <<>>
    /\ gc_op' = "clear_roots" /\ gc_ret' = 0 /\ gc_pre' = EmptyMap
    /\ UNCHANGED <<heap, next_id, allocated, gc_since, gcFrame>>

collect ==
    /\ heap' = Collected(heap, roots)
    /\ allocated' = 0
    /\ gc_since' = 0
    /\ gc_op' = "collect" /\ gc_ret' = 0 /\ gc_pre' = heap
    /\ UNCHANGED <<next_id, roots, gcFrame>>

NewGC ==
    /\ heap = EmptyMap
    /\ next_id = 1
    /\ roots = <<>>
    /\ allocated = 0
    /\ gc_op = "new" /\ gc_ret = 0 /\ gc_pre = EmptyMap
    /\ gc_since = 0

(***************************************************************************)
(*             CHANNELS OF THE THREAD MANAGER  (src/src/threading.rs)      *)
(***************************************************************************)
\* ThreadManager::new, with no thread spawned yet
NewChannels ==
    /\ next_channel_id = 1
    /\ senders = {}
    /\ receivers = {}
    /\ chan = EmptyMap
    /\ rx_lock = EmptyMap
    /\ prod = <<>>
    /\ main_pc = <<"idle">>
    /\ recvd = EmptyMap
    /\ sentlog = EmptyMap
    /\ sentBy = EmptyMap
    /\ ch_ret = <<"new">>

\* mpsc::Sender::send as it would be if it pushed to the front of the queue
Enqueue_front(q, v) == <<v>> \o q

\* mpsc::Sender::send on a channel whose receiver is alive
Enqueue(q, v) == Append(q, v)

\* mpsc::Receiver::recv as it would be if it took the newest value
Dequeue_newest(q) == [value |-> q[Len(q)], rest |-> SubSeq(q, 1, Len(q) - 1)]

\* mpsc::Receiver::recv on a non-empty queue
Dequeue(q) == [value |-> Head(q), rest |-> Tail(q)]

\* mpsc::Receiver::recv fails as it would if it looked only at the queue
Disconnected_anyEmpty(c) == c.queue = <<>>

\* mpsc::Receiver::recv fails: nothing queued and no Sender left
Disconnected(c) == c.queue = <<>> /\ c.nsenders = 0

create_channel ==
    LET id == next_channel_id
    IN /\ main_pc = <<"idle">>
       /\ next_channel_id' = id + 1
       /\ senders' = senders \cup {id}
       /\ receivers' = receivers \cup {id}
       /\ chan' = (id :> [queue |-> <<>>, nsenders |-> 1]) @@ chan
       /\ rx_lock' = (id :> "free") @@ rx_lock
       /\ recvd' = (id :> <<>>) @@ recvd
       /\ sentlog' = (id :> <<>>) @@ sentlog
       /\ sentBy' = (id :> {}) @@ sentBy
       /\ ch_ret' = <<"create_channel", id>>
       /\ UNCHANGED <<prod, main_pc, chFrame>>

\* channel_send through the manager's own sender; the receiver lives as long
\* as the manager, so the send itself cannot fail.
channel_send(id, v) ==
    /\ main_pc = <<"idle">>
    /\ IF id \in senders
       THEN /\ chan' = [chan EXCEPT ![id].queue = Enqueue(@, v)]
            /\ sentlog' = [sentlog EXCEPT ![id] = Append(@, v)]
            /\ sentBy' = [sentBy EXCEPT ![id] = @ \cup {0}]
            /\ ch_ret' = <<"channel_send", id, TRUE>>
       ELSE /\ ch_ret' = <<"channel_send", id, FALSE>>
            /\ UNCHANGED <<chan, sentlog, sentBy>>
    /\ UNCHANGED <<next_channel_id, senders, receivers, rx_lock, prod, main_pc, recvd, chFrame>>

\* tm.senders.get(&ch_id).unwrap().clone(), then thread::spawn of a closure that
\* sends `plan` through the clone (test_channel).
spawn_producer(id, plan) ==
    /\ main_pc = <<"idle">>
    /\ id \in senders
    /\ chan' = [chan EXCEPT ![id].nsenders = @ + 1]
    /\ prod' = Append(prod, [ch |-> id, plan |-> plan, sent |-> 0, done |-> FALSE])
    /\ ch_ret' = <<"spawn", id>>
    /\ UNCHANGED <<next_channel_id, senders, receivers, rx_lock, main_pc, recvd,
                   sentlog, sentBy, chFrame>>

\* One step of producer thread t: the next sender.send(v), or the end of the
\* closure, which drops the cloned sender.
producer_step(t) ==
    LET p == prod[t]
    IN /\ ~p.done
       /\ IF p.sent < Len(p.plan)
          THEN /\ chan' = [chan EXCEPT ![p.ch].queue = Enqueue(@, p.plan[p.sent + 1])]
               /\ sentlog' = [sentlog EXCEPT ![p.ch] = Append(@, p.plan[p.sent + 1])]
               /\ sentBy' = [sentBy EXCEPT ![p.ch] = @ \cup {t}]
               /\ prod' = [prod EXCEPT ![t].sent = @ + 1]
          ELSE /\ chan' = [chan EXCEPT ![p.ch].nsenders = @ - 1]
               /\ prod' = [prod EXCEPT ![t].done = TRUE]
               /\ UNCHANGED <<sentlog, sentBy>>
       /\ UNCHANGED <<next_channel_id, senders, receivers, rx_lock, main_pc, recvd,
                      ch_ret, chFrame>>

close_channel(id) ==
    /\ main_pc = <<"idle">>
    /\ senders' = senders \ {id}
    /\ chan' = IF id \in senders THEN [chan EXCEPT ![id].nsenders = @ - 1] ELSE chan
    /\ ch_ret' = <<"close_channel", id>>
    /\ UNCHANGED <<next_channel_id, receivers, rx_lock, prod, main_pc, recvd,
                   sentlog, sentBy, chFrame>>

\* channel_recv, the call: an unknown id returns None at once; otherwise the
\* receiver's Mutex is taken and the thread enters rx.recv().
channel_recv_call(id) ==
    /\ main_pc = <<"idle">>
    /\ IF id \in receivers
       THEN /\ rx_lock[id] = "free"
            /\ rx_lock' = [rx_lock EXCEPT ![id] = "main"]
            /\ main_pc' = <<"recv", id>>
            /\ UNCHANGED ch_ret
       ELSE /\ ch_ret' = <<"channel_recv", id, "None", 0>>
            /\ UNCHANGED <<rx_lock, main_pc>>
    /\ UNCHANGED <<next_channel_id, senders, receivers, chan, prod, recvd,
                   sentlog, sentBy, chFrame>>

\* channel_recv, the return from rx.recv(): a queued value, or the failure
\* once nothing is queued and no sender is left; it blocks otherwise.
channel_recv_return ==
    /\ main_pc[1] = "recv"
    /\ LET id == main_pc[2]
           c == chan[id]
       IN \/ /\ c.queue # <<>>
             /\ chan' = [chan EXCEPT ![id].queue = Dequeue(c.queue).rest]
             /\ recvd' = [recvd EXCEPT ![id] = Append(@, Dequeue(c.queue).value)]
             /\ ch_ret' = <<"channel_recv", id, "Some", Dequeue(c.queue).value>>
             /\ rx_lock' = [rx_lock EXCEPT ![id] = "free"]
          \/ /\ Disconnected(c)
             /\ ch_ret' = <<"channel_recv", id, "None", 0>>
             /\ rx_lock' = [rx_lock EXCEPT ![id] = "free"]
             /\ UNCHANGED <<chan, recvd>>
    /\ main_pc' = <<"idle">>
    /\ UNCHANGED <<next_channel_id, senders, receivers, prod, sentlog, sentBy, chFrame>>

\* Values: the manager's own sender sends 7; the t-th producer sends the n
\* distinct values 10t+1 .. 10t+n.
ChanVals == {7}
Plans == {[j \in 1..n |-> 10 * (Len(prod) + 1) + j] : n \in 0..MaxPlan}

RECURSIVE SumLen(_, _)
SumLen(f, S) ==
    IF S = {} THEN 0
    ELSE LET x == CHOOSE y \in S : TRUE IN Len(f[x]) + SumLen(f, S \ {x})

\* values accepted by all channels so far
TotalSent == SumLen(sentlog, DOMAIN sentlog)

NextChan ==
    \/ next_channel_id <= MaxChan /\ create_channel
    \/ \E id \in 1..MaxChan, v \in ChanVals :
          /\ TotalSent < MaxMainSend
          /\ channel_send(id, v)
    \/ \E id \in 1..MaxChan, plan \in Plans : Len(prod) < MaxProd /\ spawn_producer(id, plan)
    \/ \E t \in DOMAIN prod : producer_step(t)
    \/ \E id \in 1..MaxChan : close_channel(id)
    \/ \E id \in 1..MaxChan : channel_recv_call(id)
    \/ channel_recv_return

\* ---- try_recv, and threads that receive through a clone of the receiver
MaxClones == 1    \* threads given a clone of a receiver

\* no thread owns a clone yet
NewClones == rc_threads = <<>>

\* the name under which thread t holds a receiver's Mutex
CloneName(t) == "clone" \o ToString(t)

\* receiver.clone() (Arc::clone of the Mutex), moved into a spawned thread
\* that makes one call on it
spawn_receiver(id, call) ==
    /\ main_pc = <<"idle">>
    /\ id \in receivers
    /\ rc_threads' = Append(rc_threads, [ch |-> id, call |-> call, pc |-> "start",
                                         ret |-> <<>>])
    /\ UNCHANGED <<chVars, rcFrame>>

\* recv / recv_timeout of thread t up to rx.recv() / rx.recv_timeout(..):
\* `self.receiver.lock()` returns when the Mutex is free
clone_recv_call(t) ==
    /\ rc_threads[t].pc = "start"
    /\ rx_lock[rc_threads[t].ch] = "free"
    /\ rx_lock' = [rx_lock EXCEPT ![rc_threads[t].ch] = CloneName(t)]
    /\ rc_threads' = [rc_threads EXCEPT ![t].pc = "waiting"]
    /\ UNCHANGED <<next_channel_id, senders, receivers, chan, prod, main_pc, recvd,
                   sentlog, sentBy, ch_ret, rcFrame>>

\* the return of thread t's call, which drops the MutexGuard: a queued value;
\* the failure of recv once nothing is queued and no sender is left; for
\* recv_timeout also the timeout, at any time nothing is queued
clone_recv_return(t) ==
    /\ rc_threads[t].pc = "waiting"
    /\ LET id == rc_threads[t].ch
           c == chan[id]
       IN /\ \/ /\ c.queue # <<>>
                /\ chan' = [chan EXCEPT ![id].queue = Dequeue(c.queue).rest]
                /\ rc_threads' = [rc_threads EXCEPT
                                     ![t].pc = "done",
                                     ![t].ret = <<"Some", Dequeue(c.queue).value>>]
             \/ /\ c.queue = <<>>
                /\ Disconnected(c) \/ rc_threads[t].call = "recv_timeout"
                /\ rc_threads' = [rc_threads EXCEPT ![t].pc = "done", ![t].ret = <<"None">>]
                /\ UNCHANGED chan
          /\ rx_lock' = [rx_lock EXCEPT ![id] = "free"]
    /\ UNCHANGED <<next_channel_id, senders, receivers, prod, main_pc, recvd,
                   sentlog, sentBy, ch_ret, rcFrame>>

\* channel_try_recv, the call: an unknown id returns None at once; otherwise
\* the thread enters `self.receiver.lock()`
channel_try_recv_call(id) ==
    /\ main_pc = <<"idle">>
    /\ IF id \in receivers
       THEN /\ main_pc' = <<"try_recv", id>>
            /\ UNCHANGED ch_ret
       ELSE /\ ch_ret' = <<"channel_try_recv", id, "None", 0>>
            /\ UNCHANGED main_pc
    /\ UNCHANGED <<next_channel_id, senders, receivers, chan, rx_lock, prod, recvd,
                   sentlog, sentBy, rcVars, rcFrame>>

\* channel_try_recv, from the return of lock() on: rx.try_recv() takes a queued
\* value or fails at once, and the guard is dropped
channel_try_recv_return ==
    /\ main_pc[1] = "try_recv"
    /\ rx_lock[main_pc[2]] = "free"
    /\ LET id == main_pc[2]
           c == chan[id]
       IN IF c.queue # <<>>
          THEN /\ chan' = [chan EXCEPT ![id].queue = Dequeue(c.queue).rest]
               /\ recvd' = [recvd EXCEPT ![id] = Append(@, Dequeue(c.queue).value)]
               /\ ch_ret' = <<"channel_try_recv", id, "Some", Dequeue(c.queue).value>>
          ELSE /\ ch_ret' = <<"channel_try_recv", id, "None", 0>>
               /\ UNCHANGED <<chan, recvd>>
    /\ main_pc' = <<"idle">>
    /\ UNCHANGED <<next_channel_id, senders, receivers, rx_lock, prod, sentlog, sentBy,
                   rcVars, rcFrame>>

NextTryRecv ==
    \/ next_channel_id <= MaxChan /\ create_channel
    \/ \E id \in 1..MaxChan, v \in ChanVals :
          /\ TotalSent < MaxMainSend
          /\ channel_send(id, v)
    \/ \E id \in 1..MaxChan : close_channel(id)
    \/ \E id \in 1..MaxChan, call \in {"recv", "recv_timeout"} :
          Len(rc_threads) < MaxClones /\ spawn_receiver(id, call)
    \/ \E t \in DOMAIN rc_threads : clone_recv_call(t)
    \/ \E t \in DOMAIN rc_threads : clone_recv_return(t)
    \/ \E id \in 1..MaxChan : channel_try_recv_call(id)
    \/ channel_try_recv_return

(***************************************************************************)
(*   WORKERS AND JOIN  (src/src/threading.rs, src/self-host/runtime.rs)    *)
(***************************************************************************)
\* Tagged integers of the runtime.  A runtime word is an i64; the model keeps
\* the two's-complement arithmetic at a scaled width of WordBits bits.
WordBits == 8
RECURSIVE Pow2(_)
Pow2(k) == IF k = 0 THEN 1 ELSE 2 * Pow2(k - 1)
\* every value of the word type, and the integers that fit one bit less
Words == -Pow2(WordBits - 1) .. Pow2(WordBits - 1) - 1
TaggableInts == -Pow2(WordBits - 2) .. Pow2(WordBits - 2) - 1
\* reduction of a mathematical integer to the word it leaves in the register
wrapping(x) == ((x + Pow2(WordBits - 1)) % Pow2(WordBits)) - Pow2(WordBits - 1)
\* val << 1 : the top bit is shifted out
shl_1(val) == wrapping(2 * val)
\* val >> 1 on a signed word : arithmetic shift, the sign bit is copied
shr_1(val) == val \div 2
\* val >> 1 as a logical shift of the bit pattern
shr_1_logical(val) == (val % Pow2(WordBits)) \div 2
\* val & 1
and_1(val) == val % 2
\* val | 1
or_1(val) == IF and_1(val) = 1 THEN val ELSE val + 1

is_int(val) == and_1(val) = 1
is_ptr(val) == and_1(val) = 0 /\ val # 0
to_int_logical(val) == shr_1_logical(val)
to_int(val) == shr_1(val)
from_int(n) == or_1(shl_1(n))

NewWorkers ==
    /\ next_worker_id = 1
    /\ workers = EmptyMap
    /\ wthread = EmptyMap
    /\ THREADS = <<>>
    /\ rthread = <<>>
    /\ jn_pc = <<"idle">>
    /\ joins = EmptyMap
    /\ rjoins = <<>>

\* Option::take as it would be if it left the handle in place
TakeHandle_keep(h) == [got |-> h, left |-> h]

\* Option::take on the JoinHandle slot
TakeHandle(h) == [got |-> h, left |-> FALSE]

\* JoinHandle::join of a thread that has stopped: Ok(value) or Err (it panicked)
ThreadResult(t) == IF t.outcome[1] = "Ok" THEN <<"Ok", t.outcome[2]>> ELSE <<"Err">>

\* .ok() as it would be if it kept no value
JoinOutcome_none(r) == <<"None">>

\* h.join().map_err(..) followed by .ok() in join_worker
JoinOutcome(r) == IF r[1] = "Ok" THEN <<"Some", r[2]>> ELSE <<"None">>

\* What a worker's closure ends with: a value, or a panic.
WorkerVals == {5, 120}
WorkerOutcomes == {<<"Ok", v>> : v \in WorkerVals} \cup {<<"Panic">>}

\* ThreadManager::spawn / spawn_compute
spawn(outcome) ==
    LET id == next_worker_id
    IN /\ jn_pc = <<"idle">>
       /\ next_worker_id' = id + 1
       /\ workers' = (id :> [id |-> id, handle |-> TRUE]) @@ workers
       /\ wthread' = (id :> [status |-> "running", outcome |-> outcome]) @@ wthread
       /\ joins' = (id :> <<>>) @@ joins
       /\ UNCHANGED <<THREADS, rthread, jn_pc, rjoins, jnFrame>>

\* the worker's closure runs to its end
worker_finish(id) ==
    /\ wthread[id].status = "running"
    /\ wthread' = [wthread EXCEPT ![id].status = "finished"]
    /\ UNCHANGED <<next_worker_id, workers, THREADS, rthread, jn_pc, joins, rjoins, jnFrame>>

\* ThreadManager::join_worker, the call: the worker leaves the map and
\* WorkerHandle::join takes its handle; without a worker or a handle the call
\* returns None at once.
join_worker_call(id) ==
    /\ jn_pc = <<"idle">>
    /\ IF id \in DOMAIN workers
       THEN /\ workers' = [w \in DOMAIN workers \ {id} |-> workers[w]]
            /\ IF TakeHandle(workers[id].handle).got
               THEN jn_pc' = <<"join_worker", id>> /\ UNCHANGED joins
               ELSE joins' = [joins EXCEPT ![id] = Append(@, <<"None">>)] /\ UNCHANGED jn_pc
       ELSE /\ joins' = IF id \in DOMAIN joins
                        THEN [joins EXCEPT ![id] = Append(@, <<"None">>)] ELSE joins
            /\ UNCHANGED <<workers, jn_pc>>
    /\ UNCHANGED <<next_worker_id, wthread, THREADS, rthread, rjoins, jnFrame>>

\* WorkerHandle::join called on the handle in the map (code inside the module
\* reaches it, as the tests reach the private fields): take, then join.
handle_join_call(id) ==
    /\ jn_pc = <<"idle">>
    /\ id \in DOMAIN workers
    /\ workers' = [workers EXCEPT ![id].handle = TakeHandle(@).left]
    /\ IF TakeHandle(workers[id].handle).got
       THEN jn_pc' = <<"handle_join", id>> /\ UNCHANGED joins
       ELSE joins' = [joins EXCEPT ![id] = Append(@, <<"Err", "Worker already joined">>)]
            /\ UNCHANGED jn_pc
    /\ UNCHANGED <<next_worker_id, wthread, THREADS, rthread, rjoins, jnFrame>>

\* the blocked join of a worker returns once its thread has stopped
worker_join_return ==
    /\ jn_pc[1] \in {"join_worker", "handle_join"}
    /\ LET id == jn_pc[2]
           r == ThreadResult(wthread[id])
       IN /\ wthread[id].status = "finished"
          /\ joins' = [joins EXCEPT ![id] = Append(@,
                          IF jn_pc[1] = "join_worker" THEN JoinOutcome(r)
                          ELSE IF r[1] = "Ok" THEN r ELSE <<"Err", "Thread panicked">>)]
    /\ jn_pc' = <<"idle">>
    /\ UNCHANGED <<next_worker_id, workers, wthread, THREADS, rthread, rjoins, jnFrame>>

\* What a runtime thread's function returns (raw i64 words), or a panic.
RtVals == {from_int(5), from_int(-1)}
RtOutcomes == {<<"Ok", v>> : v \in RtVals} \cup {<<"Panic">>}

\* argon_thread_spawn: returns from_int(THREADS.len() - 1)
argon_thread_spawn(outcome) ==
    /\ jn_pc = <<"idle">>
    /\ THREADS' = Append(THREADS, TRUE)
    /\ rthread' = Append(rthread, [status |-> "running", outcome |-> outcome])
    /\ rjoins' = Append(rjoins, <<>>)
    /\ UNCHANGED <<next_worker_id, workers, wthread, jn_pc, joins, jnFrame>>

rthread_finish(i) ==
    /\ rthread[i].status = "running"
    /\ rthread' = [rthread EXCEPT ![i].status = "finished"]
    /\ UNCHANGED <<next_worker_id, workers, wthread, THREADS, jn_pc, joins, rjoins, jnFrame>>

\* argon_thread_join, the call.  idx is the 0-based index to_int(thread_id) as
\* usize (a negative value is out of range); slot idx is THREADS[idx + 1] here.
argon_thread_join_call(thread_id) ==
    LET idx == to_int(thread_id)
    IN /\ jn_pc = <<"idle">>
       /\ IF idx >= 0 /\ idx < Len(THREADS)
          THEN /\ THREADS' = [THREADS EXCEPT ![idx + 1] = TakeHandle(@).left]
               /\ IF TakeHandle(THREADS[idx + 1]).got
                  THEN jn_pc' = <<"argon_thread_join", idx + 1>> /\ UNCHANGED rjoins
                  ELSE rjoins' = [rjoins EXCEPT ![idx + 1] = Append(@, from_int(-1))]
                       /\ UNCHANGED jn_pc
          ELSE UNCHANGED <<THREADS, jn_pc, rjoins>>
       /\ UNCHANGED <<next_worker_id, workers, wthread, rthread, joins, jnFrame>>

argon_thread_join_return ==
    /\ jn_pc[1] = "argon_thread_join"
    /\ LET i == jn_pc[2]
           r == ThreadResult(rthread[i])
       IN /\ rthread[i].status = "finished"
          /\ rjoins' = [rjoins EXCEPT ![i] = Append(@, IF r[1] = "Ok" THEN r[2] ELSE from_int(-1))]
    /\ jn_pc' = <<"idle">>
    /\ UNCHANGED <<next_worker_id, workers, wthread, THREADS, rthread, joins, jnFrame>>

\* thread ids handed to argon_thread_join: tagged indices, in range or not
RtIds == {from_int(i) : i \in -1..MaxRt}

NextJoin ==
    \/ \E o \in WorkerOutcomes : next_worker_id <= MaxWorkers /\ spawn(o)
    \/ \E id \in DOMAIN wthread : worker_finish(id)
    \/ \E id \in 1..MaxWorkers :
          /\ id \in DOMAIN joins => Len(joins[id]) < MaxJoins
          /\ join_worker_call(id)
    \/ \E id \in DOMAIN workers : Len(joins[id]) < MaxJoins /\ handle_join_call(id)
    \/ worker_join_return
    \/ \E o \in RtOutcomes : Len(THREADS) < MaxRt /\ argon_thread_spawn(o)
    \/ \E i \in DOMAIN rthread : rthread_finish(i)
    \/ \E tid \in RtIds :
          /\ to_int(tid) + 1 \in DOMAIN rjoins => Len(rjoins[to_int(tid) + 1]) < MaxJoins
          /\ argon_thread_join_call(tid)
    \/ argon_thread_join_return

(***************************************************************************)
(*                   BYTECODE VM  (src/src/bytecode_vm.rs)                 *)
(* Indices (ip, bp, func_idx, local index, jump target) are 0-based as in  *)
(* the source; element i of a Vec is element i + 1 of the sequence.        *)
(* The values the explored programs compute stay far inside i64, so the    *)
(* arithmetic is not reduced modulo 2^64.                                  *)
(***************************************************************************)
\* VMValue
VNull == [t |-> "Null", v |-> 0]
VBool(b) == [t |-> "Bool", v |-> IF b THEN 1 ELSE 0]
VInt(n) == [t |-> "Int", v |-> n]

as_int(val) == val.v

is_truthy(val) ==
    CASE val.t = "Null" -> FALSE
      [] val.t = "Bool" -> val.v = 1
      [] OTHER -> val.v # 0

\* OpCode: the instructions without operands are Op("Add"), Op("Return"), ...
Op(name) == [op |-> name, a |-> 0, b |-> 0]
Const(n) == [op |-> "Const", a |-> n, b |-> 0]
Jump(target) == [op |-> "Jump", a |-> target, b |-> 0]
JumpIfFalse(target) == [op |-> "JumpIfFalse", a |-> target, b |-> 0]
JumpIfTrue(target) == [op |-> "JumpIfTrue", a |-> target, b |-> 0]
LoadLocal(idx) == [op |-> "LoadLocal", a |-> idx, b |-> 0]
StoreLocal(idx) == [op |-> "StoreLocal", a |-> idx, b |-> 0]
Call(func_idx, argc) == [op |-> "Call", a |-> func_idx, b |-> argc]

CompiledFunc(name, arity, locals, code) ==
    [name |-> name, arity |-> arity, locals |-> locals, code |-> code]

CallFrame(func_idx, ip, bp) == [func_idx |-> func_idx, ip |-> ip, bp |-> bp]

\* Vec::push / BytecodeVM::pop / Vec::truncate
push(s, val) == Append(s, val)

pop(s) ==
    IF s = <<>> THEN [val |-> VNull, stack |-> <<>>]
    ELSE [val |-> s[Len(s)], stack |-> SubSeq(s, 1, Len(s) - 1)]

truncate_keep(s, n) == s

truncate(s, n) == IF n < Len(s) THEN SubSeq(s, 1, n) ELSE s

\* the padding loop as it would be from 0 instead of from the argument count
pad_from_zero(s, from, to) == s \o [i \in 1..to |-> VNull]

\* `for _ in from..to { push(Null) }`
pad(s, from, to) == s \o [i \in 1..(IF to > from THEN to - from ELSE 0) |-> VNull]

Abs(n) == IF n < 0 THEN -n ELSE n

\* i64 `/` and `%`: the quotient truncates toward zero
TruncDiv(a, b) ==
    LET q == Abs(a) \div Abs(b) IN IF (a < 0) = (b < 0) THEN q ELSE -q

TruncRem(a, b) == a - b * TruncDiv(a, b)

\* The two-operand instructions: b was popped first, a second.
Binary(op, x, y) ==
    LET a == as_int(x)
        b == as_int(y)
    IN CASE op = "Add" -> VInt(a + b)
         [] op = "Sub" -> VInt(a - b)
         [] op = "Mul" -> VInt(a * b)
         [] op = "Div" -> VInt(IF b # 0 THEN TruncDiv(a, b) ELSE 0)
         [] op = "Mod" -> VInt(IF b # 0 THEN TruncRem(a, b) ELSE 0)
         [] op = "Lt" -> VBool(a < b)
         [] op = "Gt" -> VBool(a > b)
         [] op = "Le" -> VBool(a <= b)
         [] op = "Ge" -> VBool(a >= b)
         [] op = "Eq" -> VBool(a = b)
         [] op = "Ne" -> VBool(a # b)
         [] op = "And" -> VBool(is_truthy(x) /\ is_truthy(y))
         [] op = "Or" -> VBool(is_truthy(x) \/ is_truthy(y))

BinaryOps == {"Add", "Sub", "Mul", "Div", "Mod", "Lt", "Gt", "Le", "Ge", "Eq", "Ne",
              "And", "Or"}

\* Outcome of one iteration of run's loop: the new stack and frames, the lines
\* printed, and how the iteration ended: ret is <<"none">> (the loop goes on),
\* <<"ret", value>> (run returns) or <<"panic">>.
Going(s, fr) == [stack |-> s, frames |-> fr, out |-> <<>>, ret |-> <<"none">>]
Returned(s, fr, val) == [stack |-> s, frames |-> fr, out |-> <<>>, ret |-> <<"ret", val>>]
Panicked(s, fr) == [stack |-> s, frames |-> fr, out |-> <<>>, ret |-> <<"panic">>]

SetIp(fr, target) == [fr EXCEPT ![Len(fr)].ip = target]

\* The `match op` of run (lines 191-350); fr already has the ip advanced.
Exec(fs, op, s, fr) ==
    LET frame == fr[Len(fr)]
        p1 == pop(s)
        p2 == pop(p1.stack)
    IN CASE op.op = "Const" -> Going(push(s, VInt(op.a)), fr)
         [] op.op = "ConstTrue" -> Going(push(s, VBool(TRUE)), fr)
         [] op.op = "ConstFalse" -> Going(push(s, VBool(FALSE)), fr)
         [] op.op = "ConstNull" -> Going(push(s, VNull), fr)
         [] op.op \in BinaryOps ->
                Going(push(p2.stack, Binary(op.op, p2.val, p1.val)), fr)
         [] op.op = "Neg" -> Going(push(p1.stack, VInt(-as_int(p1.val))), fr)
         [] op.op = "Not" -> Going(push(p1.stack, VBool(~is_truthy(p1.val))), fr)
         [] op.op = "Jump" -> Going(s, SetIp(fr, op.a))
         [] op.op = "JumpIfFalse" ->
                Going(p1.stack, IF ~is_truthy(p1.val) THEN SetIp(fr, op.a) ELSE fr)
         [] op.op = "JumpIfTrue" ->
                Going(p1.stack, IF is_truthy(p1.val) THEN SetIp(fr, op.a) ELSE fr)
         [] op.op = "LoadLocal" ->
                IF frame.bp + op.a < Len(s)
                THEN Going(push(s, s[frame.bp + op.a + 1]), fr)
                ELSE Panicked(s, fr)            \* index out of bounds
         [] op.op = "StoreLocal" ->
                IF frame.bp + op.a < Len(p1.stack)
                THEN Going([p1.stack EXCEPT ![frame.bp + op.a + 1] = p1.val], fr)
                ELSE Panicked(p1.stack, fr)     \* index out of bounds
         [] op.op = "Call" ->
                IF op.b > Len(s) THEN Panicked(s, fr)          \* len - argc overflows
                ELSE IF op.a >= Len(fs) THEN Panicked(s, fr)   \* index out of bounds
                ELSE LET new_bp == Len(s) - op.b
                         func == fs[op.a + 1]
                     IN Going(pad(s, op.b, func.locals),
                              Append(fr, CallFrame(op.a, 0, new_bp)))
         [] op.op = "Return" ->
                LET rest == SubSeq(fr, 1, Len(fr) - 1)
                    cut == truncate(p1.stack, frame.bp)
                IN IF rest = <<>> THEN Returned(cut, rest, p1.val)
                   ELSE Going(push(cut, p1.val), rest)
         [] op.op = "Pop" -> Going(p1.stack, fr)
         [] op.op = "Dup" ->
                IF s = <<>> THEN Panicked(s, fr)               \* peek unwraps None
                ELSE Going(push(s, s[Len(s)]), fr)
         [] op.op = "Print" -> [Going(p1.stack, fr) EXCEPT !.out = <<p1.val>>]
         [] op.op = "Halt" -> Returned(s, fr, VNull)

\* One iteration of the loop of run (lines 175-351).
RunStep(fs, s, fr) ==
    LET frame == fr[Len(fr)]
        func == fs[frame.func_idx + 1]
    IN IF frame.ip >= Len(func.code)
       THEN IF Len(fr) <= 1 THEN Returned(s, fr, VNull)
            ELSE Going(s, SubSeq(fr, 1, Len(fr) - 1))
       ELSE Exec(fs, func.code[frame.ip + 1], s, SetIp(fr, frame.ip + 1))

\* The instruction the next iteration executes, or the end-of-code marker.
NextOp(fs, fr) ==
    LET frame == fr[Len(fr)]
        func == fs[frame.func_idx + 1]
    IN IF frame.ip >= Len(func.code) THEN [op |-> "End", a |-> 0, b |-> 0]
       ELSE func.code[frame.ip + 1]

\* BytecodeVM::new followed by add_function for each element of fs
RECURSIVE FuncMapOf(_, _)
FuncMapOf(fs, n) ==
    IF n = 0 THEN EmptyMap
    ELSE LET m == FuncMapOf(fs, n - 1)
             name == fs[n].name
         IN [x \in DOMAIN m \cup {name} |-> IF x = name THEN n - 1 ELSE m[x]]

NoObs == [kind |-> "none", base |-> 0, below |-> <<>>, result |-> VNull]

NewVM(fs) ==
    /\ functions = fs
    /\ func_map = FuncMapOf(fs, Len(fs))
    /\ vm_stack = <<>>
    /\ frames = <<>>
    /\ vm_bp = 0
    /\ vm_pc = "idle"
    /\ vm_cur = [name |-> "", args |-> <<>>]
    /\ vm_out = <<>>
    /\ vm_log = <<>>
    /\ frame_obs = <<>>
    /\ vm_obs = NoObs

\* BytecodeVM::call up to the entry into run (lines 147-170)
vm_call(func_name, args) ==
    /\ vm_pc = "idle"
    /\ vm_cur' = [name |-> func_name, args |-> args]
    /\ vm_obs' = NoObs
    /\ IF func_name \notin DOMAIN func_map
       THEN /\ vm_pc' = "panicked"                  \* expect("Function not found")
            /\ UNCHANGED <<vm_stack, frames, vm_bp, frame_obs>>
       ELSE LET func_idx == func_map[func_name]
                func == functions[func_idx + 1]
            IN /\ vm_bp' = Len(vm_stack)
               /\ vm_stack' = pad(vm_stack \o args, func.arity, func.locals)
               /\ frames' = Append(frames, CallFrame(func_idx, 0, Len(vm_stack)))
               /\ frame_obs' = Append(frame_obs, [base |-> Len(vm_stack),
                                                  below |-> vm_stack, viaCall |-> FALSE])
               /\ vm_pc' = "running"
    /\ UNCHANGED <<functions, func_map, vm_out, vm_log, vmFrame>>

\* One iteration of run's loop inside the current host call; when run returns,
\* call returns its value to the host.
vm_step ==
    /\ vm_pc = "running"
    /\ LET r == RunStep(functions, vm_stack, frames)
           op == NextOp(functions, frames)
       IN /\ vm_stack' = r.stack
          /\ frames' = r.frames
          /\ vm_out' = vm_out \o r.out
          /\ vm_pc' = CASE r.ret[1] = "none" -> "running"
                        [] r.ret[1] = "ret" -> "idle"
                        [] OTHER -> "panicked"
          /\ vm_log' = IF r.ret[1] = "ret"
                       THEN Append(vm_log, [name |-> vm_cur.name, args |-> vm_cur.args,
                                            result |-> r.ret[2]])
                       ELSE vm_log
          /\ frame_obs' =
                CASE Len(r.frames) > Len(frames) ->
                        Append(frame_obs,
                               [base |-> r.frames[Len(r.frames)].bp,
                                below |-> SubSeq(vm_stack, 1, r.frames[Len(r.frames)].bp),
                                viaCall |-> TRUE])
                  [] Len(r.frames) < Len(frames) -> SubSeq(frame_obs, 1, Len(r.frames))
                  [] OTHER -> frame_obs
          /\ vm_obs' =
                IF r.ret[1] = "none" /\ op.op \in {"Return", "End"}
                   /\ frame_obs[Len(frame_obs)].viaCall
                THEN [kind |-> op.op,
                      base |-> frame_obs[Len(frame_obs)].base,
                      below |-> frame_obs[Len(frame_obs)].below,
                      result |-> IF op.op = "Return" THEN pop(vm_stack).val ELSE VNull]
                ELSE NoObs
    /\ UNCHANGED <<functions, func_map, vm_bp, vm_cur, vmFrame>>

\* compile_fib (lines 356-396)
compile_fib ==
    CompiledFunc("fib", 1, 1,
        <<LoadLocal(0), Const(2), Op("Lt"), JumpIfFalse(6),
          LoadLocal(0), Op("Return"),
          LoadLocal(0), Const(1), Op("Sub"), Call(0, 1),
          LoadLocal(0), Const(2), Op("Sub"), Call(0, 1),
          Op("Add"), Op("Return")>>)

\* fast_vm.rs native_fib
RECURSIVE native_fib(_)
native_fib(n) == IF n < 2 THEN n ELSE native_fib(n - 1) + native_fib(n - 2)

\* Programs of the VM specification: function 0 is a caller "main" that calls
\* function 1, "f", passing its argument or nothing; f has every code of up to
\* MaxCodeLen instructions over Alphabet.
Alphabet ==
    {Const(1), Op("Pop"), Op("Dup"), Op("Add"), LoadLocal(0), StoreLocal(0),
     Op("Return"), Op("Halt"), Call(1, 0), JumpIfFalse(0), Op("Print")}

Codes == UNION {[1..n -> Alphabet] : n \in 0..MaxCodeLen}

Callers ==
    {CompiledFunc("main", 1, 1, <<LoadLocal(0), Call(1, 1), Op("Return")>>),
     CompiledFunc("main", 1, 1, <<Call(1, 0), Op("Return")>>)}

CalleeShapes == {<<0, 0>>, <<1, 1>>, <<1, 2>>}

Programs ==
    {<<m, CompiledFunc("f", sh[1], sh[2], c)>> :
        m \in Callers, sh \in CalleeShapes, c \in Codes}

\* Host calls: a name and the arguments (call does not compare their number
\* with the arity); "nope" names no function.
HostCalls ==
    {<<"main", <<VInt(3)>>>>, <<"f", <<>>>>, <<"f", <<VInt(3)>>>>, <<"nope", <<>>>>}

NextVM ==
    \/ \E c \in HostCalls : Len(vm_log) < MaxCalls /\ vm_call(c[1], c[2])
    \/ /\ Len(frames) <= MaxFrames /\ Len(vm_stack) <= MaxStack /\ Len(vm_out) <= MaxOut
       /\ vm_step

\* test_fib: a VM holding compile_fib only, one call of fib
NextFib ==
    \/ \E n \in 0..MaxFibN : vm_log = <<>> /\ vm_call("fib", <<VInt(n)>>)
    \/ vm_step

(***************************************************************************)
(*           TREE-WALKING INTERPRETER  (src/src/interpreter.rs)            *)
(* Scope frames, deferred statements and control flow.  The statements     *)
(* and expressions modelled are those over Null, Bool and Int values;      *)
(* strings, arrays, structs, methods and the built-in functions are not.   *)
(* The interpreter is carried through the operators as a record            *)
(*   [stack, globals, functions, out, ev, next_scope]                      *)
(* where out is the lines printed and ev, next_scope are observers: every  *)
(* scope frame gets a number, and ev lists pushes, body statements,        *)
(* defers, exits, deferred runs and pops with the frame they concern.      *)
(***************************************************************************)
\* Value
ValNull == [t |-> "Null", v |-> 0]
ValBool(b) == [t |-> "Bool", v |-> IF b THEN 1 ELSE 0]
ValInt(n) == [t |-> "Int", v |-> n]
ValFunction(func) == [t |-> "Function", v |-> 0, func |-> func]

Value_to_string_val(val) ==
    CASE val.t = "Null" -> "null"
      [] val.t = "Bool" -> IF val.v = 1 THEN "true" ELSE "false"
      [] val.t = "Int" -> ToString(val.v)
      [] OTHER -> "<fn " \o val.func.name \o ">"

Value_is_truthy(val) ==
    CASE val.t = "Null" -> FALSE
      [] val.t = "Bool" -> val.v = 1
      [] val.t = "Int" -> val.v # 0
      [] OTHER -> TRUE

Value_as_int(val) ==
    CASE val.t = "Int" -> val.v
      [] val.t = "Bool" -> val.v
      [] OTHER -> 0

\* Expr
ENumber(n) == [x |-> "Number", n |-> n]
EBool(b) == [x |-> "Bool", b |-> b]
ENull == [x |-> "Null"]
EIdentifier(name) == [x |-> "Identifier", name |-> name]
EBinOp(left, op, right) == [x |-> "BinOp", left |-> left, op |-> op, right |-> right]
EUnaryOp(op, inner) == [x |-> "UnaryOp", op |-> op, inner |-> inner]
ECall(name, args) == [x |-> "Call", name |-> name, args |-> args]

\* Stmt
SLet(name, expr) == [k |-> "Let", name |-> name, expr |-> expr]
SAssign(name, expr) == [k |-> "Assign", name |-> name, expr |-> expr]
SReturn(expr) == [k |-> "Return", value |-> <<expr>>]       \* Return(Some(expr))
SReturnNone == [k |-> "Return", value |-> <<>>]             \* Return(None)
SPrint(expr) == [k |-> "Print", expr |-> expr]
SIf(cond, then_block) == [k |-> "If", cond |-> cond, then_block |-> then_block,
                          else_block |-> <<>>]
SIfElse(cond, then_block, else_stmts) ==
    [k |-> "If", cond |-> cond, then_block |-> then_block, else_block |-> <<else_stmts>>]
SWhile(cond, body) == [k |-> "While", cond |-> cond, body |-> body]
SBreak == [k |-> "Break"]
SContinue == [k |-> "Continue"]
SExpr(expr) == [k |-> "Expr", expr |-> expr]
SBlock(stmts) == [k |-> "Block", stmts |-> stmts]
SDefer(d_stmt) == [k |-> "Defer", d_stmt |-> d_stmt]

\* parser.rs Function (params by name; body is Some(stmts))
Function(name, params, body) == [name |-> name, params |-> params, body |-> body]

\* ControlFlow, as the Err of a Result<(), ControlFlow>
FlowOk == <<"Ok">>
FlowReturn(val) == <<"Return", val>>
FlowBreak == <<"Break">>
FlowContinue == <<"Continue">>
is_err(res) == res[1] # "Ok"

ScopeFrame(id) == [id |-> id, vars |-> EmptyMap, deferred |-> <<>>]

NoStmt == [k |-> "None"]
Event(e, scope, stmt) == [e |-> e, scope |-> scope, stmt |-> stmt]

TopId(it) == it.stack[Len(it.stack)].id

Logged(it, e, scope, stmt) == [it EXCEPT !.ev = Append(@, Event(e, scope, stmt))]

MapPut(m, key, val) == [x \in DOMAIN m \cup {key} |-> IF x = key THEN val ELSE m[x]]

\* the innermost frame (index into stack) that binds name, 0 if none
RECURSIVE BindingFrame(_, _, _)
BindingFrame(stack, name, i) ==
    IF i = 0 THEN 0
    ELSE IF name \in DOMAIN stack[i].vars THEN i
    ELSE BindingFrame(stack, name, i - 1)

get_var(it, name) ==
    LET i == BindingFrame(it.stack, name, Len(it.stack))
    IN IF i # 0 THEN it.stack[i].vars[name]
       ELSE IF name \in DOMAIN it.globals THEN it.globals[name]
       ELSE IF name \in DOMAIN it.functions THEN ValFunction(it.functions[name])
       ELSE ValNull

\* set_var writing as declare_var does: always into the current frame
set_var_current(it, name, val) ==
    IF it.stack # <<>>
    THEN [it EXCEPT !.stack[Len(it.stack)].vars = MapPut(@, name, val)]
    ELSE it

set_var(it, name, val) ==
    LET i == BindingFrame(it.stack, name, Len(it.stack))
    IN IF i # 0 THEN [it EXCEPT !.stack[i].vars = MapPut(@, name, val)]
       ELSE IF name \in DOMAIN it.globals
       THEN [it EXCEPT !.globals = MapPut(@, name, val)]
       ELSE IF it.stack # <<>>
       THEN [it EXCEPT !.stack[Len(it.stack)].vars = MapPut(@, name, val)]
       ELSE it

declare_var(it, name, val) ==
    IF it.stack # <<>>
    THEN [it EXCEPT !.stack[Len(it.stack)].vars = MapPut(@, name, val)]
    ELSE it

push_scope(it) ==
    [Logged(it, "push", it.next_scope, NoStmt) EXCEPT
        !.stack = Append(@, ScopeFrame(it.next_scope)),
        !.next_scope = @ + 1]

\* println!
PrintLine(it, line) == [it EXCEPT !.out = Append(@, line)]

\* the map_err of exec_stmt: the message is printed, the statement returns Null
RuntimeError(it, msg) == PrintLine(it, "Runtime Error: " \o msg)

eval_binop(left, op, right) ==
    LET a == Value_as_int(left)
        b == Value_as_int(right)
        same == left.t = right.t /\ left.t \in {"Int", "Bool"}
    IN CASE op = "+" -> <<"Ok", ValInt(a + b)>>
         [] op = "*" -> <<"Ok", ValInt(a * b)>>
         [] op = "-" -> <<"Ok", ValInt(a - b)>>
         [] op = "/" -> <<"Ok", ValInt(IF b = 0 THEN 0 ELSE TruncDiv(a, b))>>
         [] op = "%" -> <<"Ok", ValInt(IF b = 0 THEN 0 ELSE TruncRem(a, b))>>
         [] op = "==" -> <<"Ok", ValBool(same /\ left.v = right.v)>>
         [] op = "!=" -> <<"Ok", ValBool(~same \/ left.v # right.v)>>
         [] op = "<" -> <<"Ok", ValBool(a < b)>>
         [] op = ">" -> <<"Ok", ValBool(a > b)>>
         [] op = "<=" -> <<"Ok", ValBool(a <= b)>>
         [] op = ">=" -> <<"Ok", ValBool(a >= b)>>
         [] op = "&&" -> <<"Ok", ValBool(Value_is_truthy(left) /\ Value_is_truthy(right))>>
         [] op = "||" -> <<"Ok", ValBool(Value_is_truthy(left) \/ Value_is_truthy(right))>>
         [] OTHER -> <<"Err", "Unknown operator: " \o op>>

\* `.into_iter().rev()`
rev_forward(list) == list

rev(list) == [i \in 1..Len(list) |-> list[Len(list) + 1 - i]]

(* The mutually recursive executors.  Those of statements return            *)
(* [it, res] with res a control-flow result; those of expressions return    *)
(* [it, r] with r = <<"Ok", value>> or <<"Err", message>>.                  *)
(* Bind(val, F) is F(val) with val computed once, as a `let` of the source. *)
Bind(val, F(_)) == CHOOSE y \in {F(x) : x \in {val}} : TRUE

RECURSIVE exec_stmt(_, _), exec_stmts_from(_, _, _), run_deferred(_, _, _, _, _),
          pop_scope(_), scoped_block(_, _), while_loop(_, _, _),
          execute_function(_, _, _), call_function(_, _, _),
          eval_expr(_, _), eval_args(_, _, _, _)

\* the loop of pop_scope over the deferred statements, already reversed
run_deferred(it, id, todo, i, final_result) ==
    IF i > Len(todo) THEN [it |-> it, res |-> final_result]
    ELSE Bind(exec_stmt(Logged(it, "run", id, todo[i]), todo[i]),
              LAMBDA r : run_deferred(r.it, id, todo, i + 1,
                                      IF is_err(r.res) THEN r.res ELSE final_result))

\* pop_scope as it would be with `self.exec_stmt(&stmt)?` in its loop: a
\* deferred statement that signals ends the exit before the frame is popped
pop_scope_try(it) ==
    IF Len(it.stack) <= 1 THEN [it |-> it, res |-> FlowOk]
    ELSE LET id == TopId(it)
             deferred_stmts == it.stack[Len(it.stack)].deferred
             taken == [Logged(it, "exit", id, NoStmt) EXCEPT
                          !.stack[Len(it.stack)].deferred = <<>>]
         IN Bind(run_deferred(taken, id, rev(deferred_stmts), 1, FlowOk),
                 LAMBDA r : IF is_err(r.res) THEN r
                            ELSE [it |-> [Logged(r.it, "pop", TopId(r.it), NoStmt) EXCEPT
                                             !.stack = SubSeq(@, 1, Len(@) - 1)],
                                  res |-> r.res])

pop_scope(it) ==
    IF Len(it.stack) <= 1 THEN [it |-> it, res |-> FlowOk]
    ELSE LET id == TopId(it)
             deferred_stmts == it.stack[Len(it.stack)].deferred
             taken == [Logged(it, "exit", id, NoStmt) EXCEPT
                          !.stack[Len(it.stack)].deferred = <<>>]
         IN Bind(run_deferred(taken, id, rev(deferred_stmts), 1, FlowOk),
                 LAMBDA r : [it |-> [Logged(r.it, "pop", TopId(r.it), NoStmt) EXCEPT
                                        !.stack = SubSeq(@, 1, Len(@) - 1)],
                             res |-> r.res])

\* exec_stmts: `for stmt in stmts { self.exec_stmt(stmt)?; }`
exec_stmts_from(it, stmts, i) ==
    IF i > Len(stmts) THEN [it |-> it, res |-> FlowOk]
    ELSE Bind(exec_stmt(Logged(it, "body", TopId(it), stmts[i]), stmts[i]),
              LAMBDA r : IF is_err(r.res) THEN r ELSE exec_stmts_from(r.it, stmts, i + 1))

\* push_scope; exec_stmts; pop_scope: [it, res, pop]
scoped_block(it, stmts) ==
    Bind(exec_stmts_from(push_scope(it), stmts, 1),
         LAMBDA r : Bind(pop_scope(r.it),
                         LAMBDA p : [it |-> p.it, res |-> r.res, pop |-> p.res]))

while_loop(it, cond, body) ==
    Bind(eval_expr(it, cond), LAMBDA c :
        IF c.r[1] = "Err"
        THEN [it |-> RuntimeError(c.it, c.r[2]), res |-> FlowReturn(ValNull)]
        ELSE IF ~Value_is_truthy(c.r[2]) THEN [it |-> c.it, res |-> FlowOk]
        ELSE Bind(scoped_block(c.it, body), LAMBDA b :
                IF is_err(b.pop) THEN [it |-> b.it, res |-> b.pop]
                ELSE CASE b.res[1] = "Ok" -> while_loop(b.it, cond, body)
                       [] b.res[1] = "Break" -> [it |-> b.it, res |-> FlowOk]
                       [] b.res[1] = "Continue" -> while_loop(b.it, cond, body)
                       [] OTHER -> [it |-> b.it, res |-> b.res]))

\* `self.eval_expr(expr).map_err(|e| { println!(..); ControlFlow::Return(Null) })?`
\* followed by what the statement does with the value: Done(it, val)
eval_or_fail(it, expr, Done(_, _)) ==
    Bind(eval_expr(it, expr), LAMBDA v :
        IF v.r[1] = "Err"
        THEN [it |-> RuntimeError(v.it, v.r[2]), res |-> FlowReturn(ValNull)]
        ELSE Done(v.it, v.r[2]))

exec_stmt(it, stmt) ==
    CASE stmt.k = "Let" ->
            eval_or_fail(it, stmt.expr, LAMBDA it1, val :
                [it |-> declare_var(it1, stmt.name, val), res |-> FlowOk])
      [] stmt.k = "Defer" ->
            [it |-> IF it.stack # <<>>
                    THEN [Logged(it, "defer", TopId(it), stmt.d_stmt) EXCEPT
                             !.stack[Len(it.stack)].deferred = Append(@, stmt.d_stmt)]
                    ELSE it,
             res |-> FlowOk]
      [] stmt.k = "Assign" ->
            eval_or_fail(it, stmt.expr, LAMBDA it1, val :
                [it |-> set_var(it1, stmt.name, val), res |-> FlowOk])
      [] stmt.k = "Return" ->
            IF stmt.value = <<>> THEN [it |-> it, res |-> FlowReturn(ValNull)]
            ELSE eval_or_fail(it, stmt.value[1], LAMBDA it1, val :
                    [it |-> it1, res |-> FlowReturn(val)])
      [] stmt.k = "Print" ->
            eval_or_fail(it, stmt.expr, LAMBDA it1, val :
                [it |-> PrintLine(it1, Value_to_string_val(val)), res |-> FlowOk])
      [] stmt.k = "If" ->
            eval_or_fail(it, stmt.cond, LAMBDA it1, cond_val :
                IF Value_is_truthy(cond_val) \/ stmt.else_block # <<>>
                THEN Bind(scoped_block(it1, IF Value_is_truthy(cond_val)
                                            THEN stmt.then_block
                                            ELSE stmt.else_block[1]),
                          LAMBDA b : [it |-> b.it,
                                      res |-> IF is_err(b.res) THEN b.res
                                              ELSE IF is_err(b.pop) THEN b.pop
                                              ELSE FlowOk])
                ELSE [it |-> it1, res |-> FlowOk])
      [] stmt.k = "While" -> while_loop(it, stmt.cond, stmt.body)
      [] stmt.k = "Break" -> [it |-> it, res |-> FlowBreak]
      [] stmt.k = "Continue" -> [it |-> it, res |-> FlowContinue]
      [] stmt.k = "Expr" ->
            eval_or_fail(it, stmt.expr, LAMBDA it1, val : [it |-> it1, res |-> FlowOk])
      [] stmt.k = "Block" ->
            Bind(scoped_block(it, stmt.stmts),
                 LAMBDA b : [it |-> b.it, res |-> IF is_err(b.res) THEN b.res ELSE b.pop])

\* `for (i, param) in func.params.iter().enumerate()`
RECURSIVE declare_params(_, _, _, _)
declare_params(it, params, args, i) ==
    IF i > Len(params) THEN it
    ELSE declare_params(declare_var(it, params[i],
                                    IF i <= Len(args) THEN args[i] ELSE ValNull),
                        params, args, i + 1)

\* the match as it would be if a Return of the scope exit counted after any
\* body result but a Return
match_results_pop_return(result, pop_res) ==
    CASE result[1] = "Return" -> <<"Ok", result[2]>>
      [] pop_res[1] = "Return" -> <<"Ok", pop_res[2]>>
      [] OTHER -> <<"Ok", ValNull>>

\* match (result, pop_res) { ... } of execute_function
match_results(result, pop_res) ==
    CASE result[1] = "Return" -> <<"Ok", result[2]>>
      [] result[1] = "Ok" /\ pop_res[1] = "Return" -> <<"Ok", pop_res[2]>>
      [] OTHER -> <<"Ok", ValNull>>

execute_function(it, func, args) ==
    Bind(exec_stmts_from(declare_params(push_scope(it), func.params, args, 1),
                         func.body, 1),
         LAMBDA result : Bind(pop_scope(result.it), LAMBDA p :
            [it |-> p.it, r |-> match_results(result.res, p.res)]))

\* call_function past its built-ins (lines 948-958)
call_function(it, name, args) ==
    IF name \in DOMAIN it.functions
    THEN execute_function(it, it.functions[name], args)
    ELSE LET val == get_var(it, name)
         IN IF val.t = "Function" THEN execute_function(it, val.func, args)
            ELSE [it |-> it, r |-> <<"Err", "Undefined function: " \o name>>]

\* `args.iter().map(|a| self.eval_expr(a)).collect::<Result<_,_>>()`
eval_args(it, args, i, vals) ==
    IF i > Len(args) THEN [it |-> it, r |-> <<"Ok", vals>>]
    ELSE Bind(eval_expr(it, args[i]), LAMBDA v :
            IF v.r[1] = "Err" THEN v
            ELSE eval_args(v.it, args, i + 1, Append(vals, v.r[2])))

eval_expr(it, expr) ==
    CASE expr.x = "Number" -> [it |-> it, r |-> <<"Ok", ValInt(expr.n)>>]
      [] expr.x = "Bool" -> [it |-> it, r |-> <<"Ok", ValBool(expr.b)>>]
      [] expr.x = "Null" -> [it |-> it, r |-> <<"Ok", ValNull>>]
      [] expr.x = "Identifier" -> [it |-> it, r |-> <<"Ok", get_var(it, expr.name)>>]
      [] expr.x = "BinOp" ->
            Bind(eval_expr(it, expr.left), LAMBDA l :
                IF l.r[1] = "Err" THEN l
                ELSE Bind(eval_expr(l.it, expr.right), LAMBDA rt :
                        IF rt.r[1] = "Err" THEN rt
                        ELSE [it |-> rt.it, r |-> eval_binop(l.r[2], expr.op, rt.r[2])]))
      [] expr.x = "UnaryOp" ->
            Bind(eval_expr(it, expr.inner), LAMBDA v :
                IF v.r[1] = "Err" THEN v
                ELSE [it |-> v.it,
                      r |-> <<"Ok", IF expr.op = "!"
                                    THEN ValBool(~Value_is_truthy(v.r[2]))
                                    ELSE ValInt(-Value_as_int(v.r[2]))>>])
      [] expr.x = "Call" ->
            Bind(eval_args(it, expr.args, 1, <<>>), LAMBDA a :
                IF a.r[1] = "Err" THEN a
                ELSE call_function(a.it, expr.name, a.r[2]))

\* Interpreter::new
NewInterp(ast) ==
    /\ it_ast = ast
    /\ interp = [stack |-> <<ScopeFrame(0)>>, globals |-> EmptyMap, functions |-> EmptyMap,
                 out |-> <<>>, ev |-> <<>>, next_scope |-> 1]
    /\ it_pc = "new"
    /\ it_ret = <<"None">>
    /\ it_call = <<>>

\* the TopLevel::Function items of run's loop
RECURSIVE register_functions(_, _, _)
register_functions(it, ast, i) ==
    IF i > Len(ast) THEN it
    ELSE register_functions([it EXCEPT !.functions = MapPut(@, ast[i].name, ast[i])],
                            ast, i + 1)

\* Interpreter::run
it_run ==
    /\ it_pc = "new"
    /\ LET loaded == register_functions(interp, it_ast, 1)
           r == IF "main" \in DOMAIN loaded.functions
                THEN call_function(loaded, "main", <<>>)
                ELSE [it |-> loaded, r |-> <<"Ok", ValNull>>]
       IN /\ interp' = r.it
          /\ it_ret' = r.r
    /\ it_pc' = "done"
    /\ UNCHANGED <<it_ast, it_call, itFrame>>

\* Statements of the explored function bodies.  Every loop among them ends.
Stmts ==
    {SPrint(ENumber(1)),
     SDefer(SPrint(ENumber(2))),
     SDefer(SPrint(ENumber(3))),
     SReturn(ENumber(7)),
     SDefer(SReturn(ENumber(9))),
     SDefer(SDefer(SPrint(ENumber(4)))),
     SDefer(SBlock(<<SDefer(SPrint(ENumber(5))), SPrint(ENumber(6))>>)),
     SBlock(<<SDefer(SPrint(ENumber(5))), SDefer(SPrint(ENumber(6))), SPrint(ENumber(1))>>),
     SBlock(<<SDefer(SPrint(ENumber(5))), SDefer(SPrint(ENumber(6))), SReturn(ENumber(8))>>),
     SIf(EBool(TRUE), <<SDefer(SPrint(ENumber(5))), SReturnNone>>),
     SIfElse(EIdentifier("x"), <<SPrint(ENumber(1))>>,
             <<SDefer(SPrint(ENumber(5))), SBreak>>),
     SWhile(EBool(TRUE),
            <<SDefer(SPrint(ENumber(5))), SDefer(SPrint(ENumber(6))), SBreak>>),
     SBlock(<<SLet("i", ENumber(0)),
              SWhile(EBinOp(EIdentifier("i"), "<", ENumber(2)),
                     <<SDefer(SPrint(EIdentifier("i"))),
                       SAssign("i", EBinOp(EIdentifier("i"), "+", ENumber(1)))>>)>>),
     SExpr(ECall("h", <<>>)),
     SExpr(ECall("undefined_fn", <<>>)),
     SBreak,
     SContinue,
     SLet("x", ENumber(1)),
     SAssign("x", ENumber(2)),
     SPrint(EIdentifier("x"))}

Bodies == UNION {[1..n -> Stmts] : n \in 0..MaxBody}

HelperBody ==
    <<SDefer(SPrint(ENumber(10))), SDefer(SPrint(ENumber(11))), SReturn(ENumber(12))>>

\* Programs: a helper h and main with an enumerated body.
Asts == {<<Function("h", <<>>, HelperBody), Function("main", <<>>, body)>> : body \in Bodies}

NextInterp == it_run

\* ---- a function called from inside a loop of its caller
\* Statements of the explored callee bodies; the callee prints 50.
CalleeStmts ==
    {SBreak,
     SContinue,
     SIf(EBool(TRUE), <<SBreak>>),
     SBlock(<<SContinue>>),
     SWhile(EBool(TRUE), <<SBreak>>),
     SDefer(SBreak),
     SPrint(ENumber(50)),
     SDefer(SPrint(ENumber(50))),
     SReturn(ENumber(7)),
     SDefer(SReturn(ENumber(9)))}

CalleeBodies == UNION {[1..n -> CalleeStmts] : n \in 0..MaxBody}

\* fn main() { let i = 0; while (i < 2) { i = i + 1; print(e()); print(i); } print(100); }
LoopingCaller ==
    <<SLet("i", ENumber(0)),
      SWhile(EBinOp(EIdentifier("i"), "<", ENumber(2)),
             <<SAssign("i", EBinOp(EIdentifier("i"), "+", ENumber(1))),
               SPrint(ECall("e", <<>>)),
               SPrint(EIdentifier("i"))>>),
      SPrint(ENumber(100))>>

CallAsts ==
    {<<Function("e", <<>>, body), Function("main", <<>>, LoopingCaller)>> :
        body \in CalleeBodies}

NextCalls == it_run

\* ---- a loop inside a loop of main
\* Statements of the explored inner loop bodies.
LoopStmts ==
    {SBreak,
     SContinue,
     SIf(EBool(TRUE), <<SBreak>>),
     SIfElse(EBool(FALSE), <<SPrint(ENumber(6))>>, <<SContinue>>),
     SBlock(<<SDefer(SPrint(ENumber(5))), SBreak>>),
     SBlock(<<SContinue>>),
     SIf(EBool(TRUE), <<SDefer(SBreak)>>),
     SDefer(SBreak),
     SDefer(SContinue),
     SDefer(SPrint(ENumber(5))),
     SPrint(ENumber(6)),
     SReturn(ENumber(7))}

LoopBodies == UNION {[1..n -> LoopStmts] : n \in 0..MaxBody}

\* fn main() {
\*   let i = 0;
\*   while (i < 2) {
\*     i = i + 1; let j = 0;
\*     while (j < 2) { j = j + 1; print(j); <body> }
\*     print(i + 10);
\*   }
\*   print(100);
\* }
NestedLoops(body) ==
    <<SLet("i", ENumber(0)),
      SWhile(EBinOp(EIdentifier("i"), "<", ENumber(2)),
             <<SAssign("i", EBinOp(EIdentifier("i"), "+", ENumber(1))),
               SLet("j", ENumber(0)),
               SWhile(EBinOp(EIdentifier("j"), "<", ENumber(2)),
                      <<SAssign("j", EBinOp(EIdentifier("j"), "+", ENumber(1))),
                        SPrint(EIdentifier("j"))>> \o body),
               SPrint(EBinOp(EIdentifier("i"), "+", ENumber(10)))>>),
      SPrint(ENumber(100))>>

LoopAsts == {<<Function("main", <<>>, NestedLoops(body))>> : body \in LoopBodies}

NextLoops == it_run

\* ---- set_var / get_var on the scope stack of an interpreter that is inside
\* ---- a run: frames and globals as Let, Assign and blocks leave them
MaxScopes == 2
VarNames == {"x", "y"}
VarVals == {ValInt(1), ValInt(2)}
VarMaps == UNION {[D -> VarVals] : D \in SUBSET VarNames}
ScopeStacks ==
    UNION {{[i \in 1..n |-> [id |-> i - 1, vars |-> m[i], deferred |-> <<>>]] :
               m \in [1..n -> VarMaps]} : n \in 1..MaxScopes}

\* an Assign inside a function body: set_var(name, val), then a read of name
it_set_var(name, val) ==
    /\ it_pc = "run"
    /\ interp' = set_var(interp, name, val)
    /\ it_ret' = <<"Ok", get_var(interp', name)>>
    /\ it_call' = <<name, val>>
    /\ UNCHANGED <<it_ast, it_pc, itFrame>>

NextVars == \E name \in VarNames, val \in VarVals : it_set_var(name, val)

\* ---- one statement executed by an interpreter that is inside a run, on
\* ---- scope stacks of every depth up to MaxScopes
\* fn g() { while (true) { defer print(20); if (true) { return 21; } } }
ReturningLoop ==
    <<SWhile(EBool(TRUE),
             <<SDefer(SPrint(ENumber(20))), SIf(EBool(TRUE), <<SReturn(ENumber(21))>>)>>)>>

\* fn u() { { defer print(30); let a = undefined_fn(); print(31); } }
FailingBlock ==
    <<SBlock(<<SDefer(SPrint(ENumber(30))), SLet("a", ECall("undefined_fn", <<>>)),
               SPrint(ENumber(31))>>)>>

ScopeFunctions ==
    <<Function("h", <<>>, HelperBody), Function("g", <<>>, ReturningLoop),
      Function("u", <<>>, FailingBlock)>>

\* the constructs that push a scope, ended normally, by each signal and by a
\* runtime error, in their body, their condition and their deferred statements
ScopeStmts ==
    Stmts \cup
    {SExpr(ECall("g", <<>>)),
     SExpr(ECall("u", <<>>)),
     SPrint(ECall("g", <<>>)),
     SWhile(EBool(TRUE), <<SExpr(ECall("undefined_fn", <<>>))>>),
     SWhile(ECall("undefined_fn", <<>>), <<SPrint(ENumber(1))>>),
     SWhile(EBool(TRUE), <<SDefer(SContinue), SBreak>>),
     SWhile(EBool(TRUE), <<SDefer(SReturn(ENumber(9))), SPrint(ENumber(1))>>),
     SWhile(EBool(TRUE), <<SIf(EBool(TRUE), <<SBlock(<<SBreak>>)>>)>>),
     SIf(ECall("undefined_fn", <<>>), <<SPrint(ENumber(1))>>),
     SIf(EBool(TRUE), <<SBlock(<<SContinue>>)>>),
     SIf(EBool(TRUE), <<SDefer(SBreak), SPrint(ENumber(1))>>),
     SIfElse(EBool(FALSE), <<SPrint(ENumber(1))>>, <<SExpr(ECall("undefined_fn", <<>>))>>),
     SBlock(<<SDefer(SBreak), SDefer(SBlock(<<SReturn(ENumber(3))>>))>>),
     SBlock(<<SDefer(SExpr(ECall("undefined_fn", <<>>))), SPrint(ENumber(1))>>),
     SBlock(<<SDefer(SExpr(ECall("g", <<>>))), SContinue>>)}

\* frames as Let and Defer leave them: x unbound, falsy or truthy, and
\* possibly a deferred statement waiting for the frame's exit
ScopeFrames(id) ==
    {[id |-> id, vars |-> m, deferred |-> d] :
        m \in {EmptyMap, [n \in {"x"} |-> ValInt(0)], [n \in {"x"} |-> ValInt(1)]},
        d \in {<<>>, <<SPrint(ENumber(2))>>}}

ScopeInits ==
    UNION {{st \in [1..n -> UNION {ScopeFrames(i) : i \in 0..(n - 1)}] :
               \A i \in 1..n : st[i].id = i - 1} : n \in 1..MaxScopes}

it_exec_stmt(stmt) ==
    /\ it_pc = "run"
    /\ it_call = <<>>
    /\ LET r == exec_stmt(interp, stmt)
       IN /\ interp' = r.it
          /\ it_ret' = r.res
    /\ it_call' = <<stmt>>
    /\ UNCHANGED <<it_ast, it_pc, itFrame>>

NextScopes == \E stmt \in ScopeStmts : it_exec_stmt(stmt)

\* Payloads the short specification allocates: arrays and structs holding plain
\* values and refs to any id the specification can allocate (present or not).
GcPayloads ==
    {GcArray(<<>>), GcArray(<<GcInt(7)>>)}
    \cup {GcArray(<<GcRef(i)>>) : i \in 1..MaxId}
    \cup {GcArray(<<GcRef(i), GcNull, GcRef(j)>>) : i \in 1..MaxId, j \in 2..MaxId}
    \cup {GcStruct("S", [f |-> GcRef(i)]) : i \in 1..MaxId}
    \cup {GcStruct("P", [f |-> GcInt(7), g |-> GcRef(i)]) : i \in 1..MaxId}

NextGC ==
    \/ \E obj \in GcPayloads : next_id <= MaxId /\ alloc(obj)
    \/ \E id \in 1..MaxId : add_root(id)
    \/ \E id \in 1..MaxId : remove_root(id)
    \/ clear_roots
    \/ collect


\* The long specification runs the collector up to its allocation threshold:
\* the first ids may hold a ref, ids 1 and `threshold` may be rooted (an id can
\* be rooted before it is allocated).
LongPayloads ==
    IF next_id = 1 THEN {GcArray(<<>>), GcArray(<<GcRef(2)>>)} ELSE {GcArray(<<>>)}
LongRoots == {1, threshold}

NextGCLong ==
    \/ \E obj \in LongPayloads : next_id <= MaxLongId /\ alloc(obj)
    \/ \E id \in LongRoots : add_root(id)

\* Ref targets of a payload, as a set (independent of the traversal order).
RefTargets(obj) ==
    IF obj.kind = "Array"
    THEN {obj.items[i].v : i \in {j \in DOMAIN obj.items : obj.items[j].t = "Ref"}}
    ELSE {obj.fields[k].v : k \in {j \in DOMAIN obj.fields : obj.fields[j].t = "Ref"}}

\* The well-formed specification gives alloc only payloads whose refs are
\* present, and runs past the allocation threshold.  The host makes its other
\* calls while the first ids are allocated and again around the threshold; in
\* between it only allocates.
MaxRefId == 1001  \* ids the well-formed collector specification allocates
MaxEarlyId == 1   \* ids up to which the host makes calls other than alloc at the start
HostBusy == next_id <= MaxEarlyId \/ next_id >= threshold
RefPayloads ==
    {GcArray(<<>>)} \cup
    (IF HostBusy
     THEN {GcArray(<<GcRef(i)>>) : i \in {1, next_id - 1}}
          \cup {GcStruct("P", [f |-> GcInt(7), g |-> GcRef(i)]) : i \in {next_id - 1}}
     ELSE {})
RefRoots == {1, threshold}

NextGCRefs ==
    \/ \E obj \in RefPayloads :
          /\ next_id <= MaxRefId
          /\ RefTargets(obj) \subseteq DOMAIN heap
          /\ alloc(obj)
    \/ \E id \in RefRoots : HostBusy /\ add_root(id)
    \/ \E id \in RefRoots : HostBusy /\ remove_root(id)
    \/ HostBusy /\ clear_roots
    \/ HostBusy /\ collect

(***************************************************************************)
(* JIT: hot-path detection of JitCompiler and the trace recorder           *)
(* (src/src/jit.rs)                                                        *)
(***************************************************************************)
DefaultHotThreshold == 100
DefaultLoopThreshold == 10

MaxThreshold == 2      \* set_hot_threshold is called with 0..MaxThreshold
MaxJitCalls == 3       \* record_call calls per name
MaxLoopThreshold == 2  \* loop_threshold is assigned 0..MaxLoopThreshold
MaxLoops == 2          \* record_loop calls per location
MaxTraces == 2         \* recordings started
MaxTraceOps == 2       \* operations recorded in all traces together

JitNames == {"f", "g"}
Locations == {"main:10", "main:20"}

NewJitCompiler ==
    [compiled_functions |-> EmptyMap, hot_threshold |-> DefaultHotThreshold,
     call_counts |-> EmptyMap, enabled |-> TRUE]

CompiledFunction(name, call_count) ==
    [name |-> name, call_count |-> call_count, is_hot |-> TRUE]

set_hot_threshold(j, thr) == [j EXCEPT !.hot_threshold = thr]

set_enabled(j, enabled) == [j EXCEPT !.enabled = enabled]

\* entry(key).or_insert(0): the count read before it is incremented
or_insert_0(counts, key) == IF key \in DOMAIN counts THEN counts[key] ELSE 0

record_call_above(j, name) ==
    LET count == or_insert_0(j.call_counts, name) + 1
    IN [jit |-> [j EXCEPT !.call_counts = MapPut(@, name, count)],
        ret |-> count > j.hot_threshold]

record_call(j, name) ==
    LET count == or_insert_0(j.call_counts, name) + 1
    IN [jit |-> [j EXCEPT !.call_counts = MapPut(@, name, count)],
        ret |-> count >= j.hot_threshold]

should_compile_recompiling(j, name) ==
    IF ~j.enabled THEN FALSE
    ELSE IF name \in DOMAIN j.call_counts
         THEN j.call_counts[name] >= j.hot_threshold
         ELSE FALSE

should_compile(j, name) ==
    IF ~j.enabled THEN FALSE
    ELSE IF name \in DOMAIN j.compiled_functions THEN FALSE
    ELSE IF name \in DOMAIN j.call_counts
         THEN j.call_counts[name] >= j.hot_threshold
         ELSE FALSE

\* built is Cranelift's outcome (declare, define, finalize): when one of them
\* fails the `?` returns the error before the function is stored
compile_simple_function(j, name, built) ==
    IF ~built THEN [jit |-> j, ret |-> "Err"]
    ELSE [jit |-> [j EXCEPT !.compiled_functions =
                       MapPut(@, name, CompiledFunction(name, or_insert_0(j.call_counts, name)))],
          ret |-> "Ok"]

is_compiled(j, name) == name \in DOMAIN j.compiled_functions

\* reset as it would be if it dropped the compiled functions with the counts
reset_all(j) == [j EXCEPT !.call_counts = EmptyMap, !.compiled_functions = EmptyMap]

\* self.call_counts.clear()
reset(j) == [j EXCEPT !.call_counts = EmptyMap]

JitRet(op, name, ret) == [op |-> op, name |-> name, ret |-> ret]

NewJit ==
    /\ jit = NewJitCompiler
    /\ jit_ret = JitRet("new", "", FALSE)
    /\ jit_calls = [n \in JitNames |-> 0]
    /\ jit_done = {}
    /\ jit_on = TRUE

jit_set_hot_threshold ==
    \E thr \in 0..MaxThreshold :
        /\ jit' = set_hot_threshold(jit, thr)
        /\ jit_ret' = JitRet("set_hot_threshold", "", FALSE)
        /\ UNCHANGED <<jit_calls, jit_done, jit_on, jitFrame>>

jit_set_enabled ==
    \E enabled \in BOOLEAN :
        /\ jit' = set_enabled(jit, enabled)
        /\ jit_on' = enabled
        /\ jit_ret' = JitRet("set_enabled", "", enabled)
        /\ UNCHANGED <<jit_calls, jit_done, jitFrame>>

jit_record_call ==
    \E name \in JitNames :
        /\ jit_calls[name] < MaxJitCalls
        /\ jit' = record_call(jit, name).jit
        /\ jit_ret' = JitRet("record_call", name, record_call(jit, name).ret)
        /\ jit_calls' = [jit_calls EXCEPT ![name] = @ + 1]
        /\ UNCHANGED <<jit_done, jit_on, jitFrame>>

jit_compile_simple_function ==
    \E name \in JitNames, built \in BOOLEAN :
        /\ jit' = compile_simple_function(jit, name, built).jit
        /\ jit_ret' = JitRet("compile_simple_function", name, built)
        /\ jit_done' = IF compile_simple_function(jit, name, built).ret = "Ok"
                       THEN jit_done \cup {name} ELSE jit_done
        /\ UNCHANGED <<jit_calls, jit_on, jitFrame>>

NextJit ==
    \/ jit_set_hot_threshold
    \/ jit_set_enabled
    \/ jit_record_call
    \/ jit_compile_simple_function

\* reset(): jit_calls then counts the record_call calls made since
jit_reset ==
    /\ jit' = reset(jit)
    /\ jit_ret' = JitRet("reset", "", FALSE)
    /\ jit_calls' = [n \in JitNames |-> 0]
    /\ UNCHANGED <<jit_done, jit_on, jitFrame>>

NextJitReset ==
    \/ jit_set_hot_threshold
    \/ jit_set_enabled
    \/ jit_record_call
    \/ jit_compile_simple_function
    \/ jit_reset

\* ---- native code: compile_simple_function's body and call_compiled ----
MaxOps == 2      \* JitOps of an enumerated Custom body
MinWord == -Pow2(WordBits - 1)
MaxWord == Pow2(WordBits - 1) - 1

\* SimpleFunction and JitOp
SimpleFunction(kind) == [kind |-> kind, ops |-> <<>>]
Custom(ops) == [kind |-> "Custom", ops |-> ops]
JitOp(op, n) == [op |-> op, n |-> n]

\* Cranelift instructions on the running value; the operand is the function's
\* parameter or an iconst
Ins(ins, src, n) == [ins |-> ins, src |-> src, n |-> n]

\* the instructions the builder emits for a body (jit.rs:147-187)
emit(body) ==
    CASE body.kind = "Identity" -> <<>>
      [] body.kind = "Double" -> <<Ins("imul", "iconst", 2)>>
      [] body.kind = "Square" -> <<Ins("imul", "param", 0)>>
      [] body.kind = "Increment" -> <<Ins("iadd", "iconst", 1)>>
      [] body.kind = "Negate" -> <<Ins("ineg", "none", 0)>>
      [] body.kind = "Custom" ->
            [i \in 1..Len(body.ops) |->
                CASE body.ops[i].op = "Add" -> Ins("iadd", "iconst", body.ops[i].n)
                  [] body.ops[i].op = "Sub" -> Ins("isub", "iconst", body.ops[i].n)
                  [] body.ops[i].op = "Mul" -> Ins("imul", "iconst", body.ops[i].n)
                  [] body.ops[i].op = "Div" -> Ins("sdiv", "iconst", body.ops[i].n)]

\* sdiv traps on a zero divisor and on the quotient that does not fit
sdiv_traps(a, b) == b = 0 \/ (a = MinWord /\ b = -1)

\* one instruction on the machine word: <<"Ok", value>> or <<"Trap">>
execute(i, cur, param) ==
    LET b == IF i.src = "param" THEN param ELSE i.n
    IN CASE i.ins = "iadd" -> <<"Ok", wrapping(cur + b)>>
         [] i.ins = "isub" -> <<"Ok", wrapping(cur - b)>>
         [] i.ins = "imul" -> <<"Ok", wrapping(cur * b)>>
         [] i.ins = "ineg" -> <<"Ok", wrapping(-cur)>>
         [] i.ins = "sdiv" -> IF sdiv_traps(cur, b) THEN <<"Trap">>
                              ELSE <<"Ok", TruncDiv(cur, b)>>

\* the native function applied to param: the returned word, or a trap
RECURSIVE native(_, _, _, _)
native(code, i, cur, param) ==
    IF i > Len(code) THEN <<"Some", cur>>
    ELSE IF execute(code[i], cur, param)[1] = "Trap" THEN <<"Trap">>
    ELSE native(code, i + 1, execute(code[i], cur, param)[2], param)

\* call_compiled: None when the name has no compiled function
call_compiled(module, name, arg) ==
    IF name \in DOMAIN module THEN native(module[name], 1, arg, arg) ELSE <<"None">>

NewJitCode ==
    /\ jc_module = EmptyMap
    /\ jc_body = EmptyMap
    /\ jc_ret = <<>>

JcNames == {"f"}
JcOps == {JitOp("Add", 1), JitOp("Sub", 3), JitOp("Mul", -3),
          JitOp("Div", 2), JitOp("Div", -1), JitOp("Div", 0)}
JcBodies ==
    {SimpleFunction(k) : k \in {"Identity", "Double", "Square", "Increment", "Negate"}}
    \cup {Custom(ops) : ops \in UNION {[1..n -> JcOps] : n \in 0..MaxOps}}
JcArgs == {MinWord, MinWord \div 2, -3, -1, 0, 1, 5, MaxWord \div 2 + 1, MaxWord}

\* compile_simple_function(name, body): when the module accepts the
\* definition the finalized code is the emitted body; otherwise Err and the
\* module keeps what it had
jc_compile_simple_function ==
    \E name \in JcNames, body \in JcBodies, built \in BOOLEAN :
        /\ IF built
           THEN /\ jc_module' = MapPut(jc_module, name, emit(body))
                /\ jc_body' = MapPut(jc_body, name, body)
           ELSE UNCHANGED <<jc_module, jc_body>>
        /\ jc_ret' = <<>>
        /\ UNCHANGED jcFrame

jc_call_compiled ==
    \E name \in JcNames, arg \in JcArgs :
        /\ jc_ret' = <<[name |-> name, arg |-> arg, ret |-> call_compiled(jc_module, name, arg)]>>
        /\ UNCHANGED <<jc_module, jc_body, jcFrame>>

NextJitCode ==
    \/ jc_compile_simple_function
    \/ jc_call_compiled

\* ---- TraceRecorder (jit.rs:541-632) ----
Trace(id, location) ==
    [id |-> id, operations |-> <<>>, start_location |-> location,
     loop_count |-> 0, is_compiled |-> FALSE]

TraceOps == {[op |-> "LoadInt", n |-> 10], [op |-> "Add", n |-> 0]}

\* Option: <<>> is None, <<x>> is Some(x)
NewTraceRecorder ==
    [is_recording |-> FALSE, current_trace |-> <<>>, traces |-> <<>>,
     next_trace_id |-> 0, loop_threshold |-> DefaultLoopThreshold,
     loop_counts |-> EmptyMap]

\* start_recording as it would be without `self.next_trace_id += 1`
start_recording_same_id(t, location) ==
    [t EXCEPT !.is_recording = TRUE,
              !.current_trace = <<Trace(t.next_trace_id, location)>>]

start_recording(t, location) ==
    [t EXCEPT !.is_recording = TRUE,
              !.current_trace = <<Trace(t.next_trace_id, location)>>,
              !.next_trace_id = @ + 1]

record_loop_above(t, location) ==
    LET count == or_insert_0(t.loop_counts, location) + 1
        t1 == [t EXCEPT !.loop_counts = MapPut(@, location, count)]
    IN IF count > t.loop_threshold /\ ~t.is_recording
       THEN [tr |-> start_recording(t1, location), ret |-> TRUE]
       ELSE [tr |-> t1, ret |-> FALSE]

\* record_loop as it would be without `&& !self.is_recording`
record_loop_restart(t, location) ==
    LET count == or_insert_0(t.loop_counts, location) + 1
        t1 == [t EXCEPT !.loop_counts = MapPut(@, location, count)]
    IN IF count >= t.loop_threshold
       THEN [tr |-> start_recording(t1, location), ret |-> TRUE]
       ELSE [tr |-> t1, ret |-> FALSE]

record_loop(t, location) ==
    LET count == or_insert_0(t.loop_counts, location) + 1
        t1 == [t EXCEPT !.loop_counts = MapPut(@, location, count)]
    IN IF count >= t.loop_threshold /\ ~t.is_recording
       THEN [tr |-> start_recording(t1, location), ret |-> TRUE]
       ELSE [tr |-> t1, ret |-> FALSE]

record_op_front(t, op) ==
    IF t.current_trace # <<>>
    THEN [t EXCEPT !.current_trace[1].operations = <<op>> \o @]
    ELSE t

record_op(t, op) ==
    IF t.current_trace # <<>>
    THEN [t EXCEPT !.current_trace[1].operations = Append(@, op)]
    ELSE t

stop_recording(t) ==
    IF t.current_trace # <<>>
    THEN [tr |-> [t EXCEPT !.is_recording = FALSE, !.current_trace = <<>>,
                           !.traces = Append(@, t.current_trace[1])],
          ret |-> <<t.current_trace[1].id>>]
    ELSE [tr |-> [t EXCEPT !.is_recording = FALSE], ret |-> <<>>]

\* self.traces.iter().find(|t| t.id == id)
RECURSIVE find_trace(_, _, _)
find_trace(traces, id, i) ==
    IF i > Len(traces) THEN <<>>
    ELSE IF traces[i].id = id THEN <<traces[i]>>
    ELSE find_trace(traces, id, i + 1)

get_trace(t, id) == find_trace(t.traces, id, 1)

TrRet(op, location, ret, id) == [op |-> op, location |-> location, ret |-> ret, id |-> id]

NewTrace ==
    /\ tr = NewTraceRecorder
    /\ tr_ret = TrRet("new", "", FALSE, <<>>)
    /\ tr_loops = [l \in Locations |-> 0]
    /\ tr_active = FALSE
    /\ tr_since = <<>>

\* the test's `recorder.loop_threshold = 3`: the field is public
tr_set_loop_threshold ==
    \E thr \in 0..MaxLoopThreshold :
        /\ tr' = [tr EXCEPT !.loop_threshold = thr]
        /\ tr_ret' = TrRet("loop_threshold", "", FALSE, <<>>)
        /\ UNCHANGED <<tr_loops, tr_active, tr_since, trFrame>>

tr_record_loop ==
    \E location \in Locations :
        /\ tr_loops[location] < MaxLoops
        /\ tr.next_trace_id < MaxTraces
        /\ tr' = record_loop(tr, location).tr
        /\ tr_ret' = TrRet("record_loop", location, record_loop(tr, location).ret, <<>>)
        /\ tr_loops' = [tr_loops EXCEPT ![location] = @ + 1]
        /\ tr_active' = (tr_active \/ record_loop(tr, location).ret)
        /\ tr_since' = IF record_loop(tr, location).ret THEN <<>> ELSE tr_since
        /\ UNCHANGED trFrame

tr_start_recording ==
    \E location \in Locations :
        /\ tr.next_trace_id < MaxTraces
        /\ tr' = start_recording(tr, location)
        /\ tr_ret' = TrRet("start_recording", location, FALSE, <<>>)
        /\ tr_active' = TRUE
        /\ tr_since' = <<>>
        /\ UNCHANGED <<tr_loops, trFrame>>

\* the operations held by the finalized traces and the current one
RECURSIVE OpsHeld(_)
OpsHeld(ts) == IF ts = <<>> THEN 0 ELSE Len(Head(ts).operations) + OpsHeld(Tail(ts))

tr_record_op ==
    \E op \in TraceOps :
        /\ OpsHeld(tr.traces \o tr.current_trace) < MaxTraceOps
        /\ tr' = record_op(tr, op)
        /\ tr_ret' = TrRet("record_op", "", FALSE, <<>>)
        /\ tr_since' = IF tr_active THEN Append(tr_since, op) ELSE tr_since
        /\ UNCHANGED <<tr_loops, tr_active, trFrame>>

tr_stop_recording ==
    /\ tr' = stop_recording(tr).tr
    /\ tr_ret' = TrRet("stop_recording", "", FALSE, stop_recording(tr).ret)
    /\ tr_active' = FALSE
    /\ UNCHANGED <<tr_loops, tr_since, trFrame>>

NextTrace ==
    \/ tr_set_loop_threshold
    \/ tr_record_loop
    \/ tr_start_recording
    \/ tr_record_op
    \/ tr_stop_recording

(***************************************************************************)
(* Runtime mutexes and atomics (src/self-host/runtime.rs:478-632)          *)
(***************************************************************************)
MaxMutexes == 1     \* mutexes created by argon_mutex_new
MaxHeld == 2        \* lock calls of one thread not yet followed by an unlock

\* the two threads calling argon_mutex_lock / argon_mutex_unlock
MuThreads == {1, 2}

\* the ids threads pass: the tagged index of each mutex that may exist and of
\* one that never does
MutexIds == {from_int(i) : i \in -1..MaxMutexes}

\* `(to_int(id) as usize) < len`: the cast takes a negative index above any
\* length a Vec can have
in_bounds(idx, len) == 0 <= idx /\ idx < len

drop_guard_kept(owners, idx) == owners

\* the MutexGuard goes out of scope: the lock is released
drop_guard(owners, idx) == [owners EXCEPT ![idx] = 0]

MuIdle == [at |-> "idle", idx |-> 0]

NewMutexes ==
    /\ MUTEXES = <<>>
    /\ mu_pc = [t \in MuThreads |-> MuIdle]
    /\ mu_ret = [t \in MuThreads |-> [op |-> "none", id |-> 0, val |-> 0, len |-> 0]]
    /\ mu_held = [t \in MuThreads |-> <<>>]

\* MUTEXES is a `static mut` Vec: a push while another thread indexes it is a
\* data race, so mutexes are created while no thread is inside a call
argon_mutex_new ==
    /\ Len(MUTEXES) < MaxMutexes
    /\ \A t \in MuThreads : mu_pc[t] = MuIdle
    /\ MUTEXES' = Append(MUTEXES, 0)
    /\ mu_held' = [t \in MuThreads |-> Append(mu_held[t], 0)]
    /\ UNCHANGED <<mu_pc, mu_ret, muFrame>>

\* the call up to mutex.lock(): an index outside the Vec returns -1 at once
argon_mutex_lock_call(t) ==
    \E mutex_id \in MutexIds :
        LET idx == to_int(mutex_id)
        IN /\ mu_pc[t] = MuIdle
           /\ IF in_bounds(idx, Len(MUTEXES))
              THEN /\ mu_held[t][idx + 1] < MaxHeld
                   /\ mu_pc' = [mu_pc EXCEPT ![t] = [at |-> "lock", idx |-> idx + 1]]
                   /\ UNCHANGED mu_ret
              ELSE /\ mu_ret' = [mu_ret EXCEPT ![t] =
                                    [op |-> "lock", id |-> mutex_id, val |-> from_int(-1),
                                     len |-> Len(MUTEXES)]]
                   /\ UNCHANGED mu_pc
           /\ UNCHANGED <<MUTEXES, mu_held, muFrame>>

\* mutex.lock() returns Ok(_guard): it blocks while another guard exists.
\* No guard is ever dropped by a panic, so the mutex is never poisoned.
mutex_lock(t) ==
    /\ mu_pc[t].at = "lock"
    /\ MUTEXES[mu_pc[t].idx] = 0
    /\ MUTEXES' = [MUTEXES EXCEPT ![mu_pc[t].idx] = t]
    /\ mu_pc' = [mu_pc EXCEPT ![t].at = "guard"]
    /\ UNCHANGED <<mu_ret, mu_held, muFrame>>

\* `return from_int(1)` inside the Ok(_guard) arm
argon_mutex_lock_return(t) ==
    /\ mu_pc[t].at = "guard"
    /\ MUTEXES' = drop_guard(MUTEXES, mu_pc[t].idx)
    /\ mu_ret' = [mu_ret EXCEPT ![t] =
                     [op |-> "lock", id |-> from_int(mu_pc[t].idx - 1), val |-> from_int(1),
                      len |-> Len(MUTEXES)]]
    /\ mu_held' = [mu_held EXCEPT ![t][mu_pc[t].idx] = @ + 1]
    /\ mu_pc' = [mu_pc EXCEPT ![t] = MuIdle]
    /\ UNCHANGED muFrame

argon_mutex_unlock(t) ==
    \E mutex_id \in MutexIds :
        LET idx == to_int(mutex_id)
        IN /\ mu_pc[t] = MuIdle
           /\ mu_ret' = [mu_ret EXCEPT ![t] =
                            [op |-> "unlock", id |-> mutex_id, val |-> from_int(1),
                             len |-> Len(MUTEXES)]]
           /\ mu_held' = IF in_bounds(idx, Len(MUTEXES)) /\ mu_held[t][idx + 1] > 0
                         THEN [mu_held EXCEPT ![t][idx + 1] = @ - 1]
                         ELSE mu_held
           /\ UNCHANGED <<MUTEXES, mu_pc, muFrame>>

NextMutex ==
    \/ argon_mutex_new
    \/ \E t \in MuThreads : argon_mutex_lock_call(t)
    \/ \E t \in MuThreads : mutex_lock(t)
    \/ \E t \in MuThreads : argon_mutex_lock_return(t)
    \/ \E t \in MuThreads : argon_mutex_unlock(t)

\* ---- atomics (runtime.rs:561-632) ----
MaxAtomics == 1     \* atomics created by argon_atomic_new
MaxAtomicOps == 3   \* operations applied to the atomics

\* the two threads calling the atomic operations
AtThreads == {1, 2}

AtomicIds == {from_int(i) : i \in 0..MaxAtomics}

AtIdle == [at |-> "idle", val |-> 0, k |-> 0]

fetch_add_after(v, d) == [val |-> v + d, prev |-> v + d]

\* AtomicI64::fetch_add(d, SeqCst): one indivisible read-modify-write
fetch_add(v, d) == [val |-> v + d, prev |-> v]

\* AtomicI64::compare_exchange(exp, new, SeqCst, SeqCst)
compare_exchange(v, exp, new) ==
    IF v = exp THEN [val |-> new, ok |-> TRUE] ELSE [val |-> v, ok |-> FALSE]

AtLog(op, idx, a, b, ret) == [op |-> op, idx |-> idx, a |-> a, b |-> b, ret |-> ret]

NewAtomics ==
    /\ ATOMICS = <<>>
    /\ at_init = <<>>
    /\ at_pc = [t \in AtThreads |-> AtIdle]
    /\ at_log = <<>>

\* as for MUTEXES, the push happens while no thread is inside a call
argon_atomic_new ==
    \E initial_value \in {from_int(0)} :
        /\ Len(ATOMICS) < MaxAtomics
        /\ \A t \in AtThreads : at_pc[t] = AtIdle
        /\ ATOMICS' = Append(ATOMICS, to_int(initial_value))
        /\ at_init' = Append(at_init, to_int(initial_value))
        /\ UNCHANGED <<at_pc, at_log, atFrame>>

\* a call up to and including its access to the atomic; what it will return
\* is kept in at_pc until the call returns
AtEffect(t, op, idx, a, b, newval, ret) ==
    /\ ATOMICS' = [ATOMICS EXCEPT ![idx + 1] = newval]
    /\ at_log' = Append(at_log, AtLog(op, idx + 1, a, b, ret))
    /\ at_pc' = [at_pc EXCEPT ![t] = [at |-> "ret", val |-> ret, k |-> Len(at_log) + 1]]
    /\ UNCHANGED <<at_init, atFrame>>

AtMiss(t, ret) ==
    /\ at_pc' = [at_pc EXCEPT ![t] = [at |-> "ret", val |-> ret, k |-> 0]]
    /\ UNCHANGED <<ATOMICS, at_init, at_log, atFrame>>

argon_atomic_load(t) ==
    \E atomic_id \in AtomicIds :
        LET idx == to_int(atomic_id)
        IN /\ at_pc[t] = AtIdle /\ Len(at_log) < MaxAtomicOps
           /\ IF in_bounds(idx, Len(ATOMICS))
              THEN AtEffect(t, "load", idx, 0, 0, ATOMICS[idx + 1], from_int(ATOMICS[idx + 1]))
              ELSE AtMiss(t, from_int(0))

argon_atomic_store(t) ==
    \E atomic_id \in AtomicIds, value \in {from_int(0)} :
        LET idx == to_int(atomic_id)
            val == to_int(value)
        IN /\ at_pc[t] = AtIdle /\ Len(at_log) < MaxAtomicOps
           /\ IF in_bounds(idx, Len(ATOMICS))
              THEN AtEffect(t, "store", idx, val, 0, val, from_int(1))
              ELSE AtMiss(t, from_int(-1))

argon_atomic_add(t) ==
    \E atomic_id \in AtomicIds, delta \in {from_int(1), from_int(2)} :
        LET idx == to_int(atomic_id)
            d == to_int(delta)
        IN /\ at_pc[t] = AtIdle /\ Len(at_log) < MaxAtomicOps
           /\ IF in_bounds(idx, Len(ATOMICS))
              THEN AtEffect(t, "add", idx, d, 0, fetch_add(ATOMICS[idx + 1], d).val,
                            from_int(fetch_add(ATOMICS[idx + 1], d).prev))
              ELSE AtMiss(t, from_int(0))

argon_atomic_cas(t) ==
    \E atomic_id \in AtomicIds, expected \in {from_int(0), from_int(3)},
       new_value \in {from_int(1)} :
        LET idx == to_int(atomic_id)
            exp == to_int(expected)
            new_val == to_int(new_value)
        IN /\ at_pc[t] = AtIdle /\ Len(at_log) < MaxAtomicOps
           /\ IF in_bounds(idx, Len(ATOMICS))
              THEN AtEffect(t, "cas", idx, exp, new_val,
                            compare_exchange(ATOMICS[idx + 1], exp, new_val).val,
                            IF compare_exchange(ATOMICS[idx + 1], exp, new_val).ok
                            THEN from_int(1) ELSE from_int(0))
              ELSE AtMiss(t, from_int(0))

argon_atomic_return(t) ==
    /\ at_pc[t].at = "ret"
    /\ at_pc' = [at_pc EXCEPT ![t] = AtIdle]
    /\ UNCHANGED <<ATOMICS, at_init, at_log, atFrame>>

NextAtomic ==
    \/ argon_atomic_new
    \/ \E t \in AtThreads : argon_atomic_load(t)
    \/ \E t \in AtThreads : argon_atomic_store(t)
    \/ \E t \in AtThreads : argon_atomic_add(t)
    \/ \E t \in AtThreads : argon_atomic_cas(t)
    \/ \E t \in AtThreads : argon_atomic_return(t)

(***************************************************************************)
(* Module loading: Interpreter::run over top-level items and load_module   *)
(* (src/src/interpreter.rs:215-305)                                        *)
(***************************************************************************)
MaxItems == 2      \* top-level items of the program that is run
MaxModItems == 1   \* top-level items of each of the other files

TImport(path) == [item |-> "Import", arg |-> path]
TFunction(name) == [item |-> "Function", arg |-> name]

\* A file name is the list of its path components. "stdlib/b" is the one
\* import path made of two.
Components(s) ==
    IF s = "" THEN <<>>
    ELSE IF s = "stdlib/b" THEN <<"stdlib", "b">>
    ELSE <<s>>

\* format!("{}/{}.ar", dir, path), and format!("{}.ar", path) when dir is ""
ar_file(dir, path) == Components(dir) \o Components(path) \o <<".ar">>

\* set_base_path: the directory of the program file
base_path == "base"

possible_paths(path) ==
    (IF base_path # "" THEN <<ar_file(base_path, path)>> ELSE <<>>)
    \o <<ar_file("d:/rust/stdlib", path), ar_file("stdlib", path), ar_file("", path),
         ar_file("examples", path), ar_file("libs", path)>>

\* the first of the paths, from the i-th on, that exists; <<>> if none does
RECURSIVE first_existing(_, _, _)
first_existing(fs, paths, i) ==
    IF i > Len(paths) THEN <<>>
    ELSE IF paths[i] \in DOMAIN fs THEN paths[i]
    ELSE first_existing(fs, paths, i + 1)

\* the program that is run and the two other files there are
ProgramFile == ar_file(base_path, "m")
ModuleFiles == {ar_file(base_path, "a"), ar_file("stdlib", "b")}

RunFrame(file) == [file |-> file, i |-> 1]

NewLoader(fs) ==
    /\ ld_fs = fs
    /\ loaded_modules = {}
    /\ ld_functions = {}
    /\ ld_stack = <<>>
    /\ ld_pc = "new"
    /\ ld_runs = [f \in DOMAIN fs |-> 0]
    /\ ld_main_calls = 0

\* main.rs: interp.run(&final_ast) on the program file's items
ld_run ==
    /\ ld_pc = "new" /\ ld_fs # EmptyMap
    /\ ld_pc' = "running"
    /\ ld_stack' = <<RunFrame(ProgramFile)>>
    /\ ld_runs' = [ld_runs EXCEPT ![ProgramFile] = @ + 1]
    /\ UNCHANGED <<ld_fs, loaded_modules, ld_functions, ld_main_calls, ldFrame>>

TopRun == ld_stack[Len(ld_stack)]

\* the item run's for loop is at, NoItem past the last
NoItem == [item |-> "None", arg |-> ""]
TopItem ==
    IF ld_pc = "running" /\ TopRun.i <= Len(ld_fs[TopRun.file])
    THEN ld_fs[TopRun.file][TopRun.i] ELSE NoItem

Advanced == [ld_stack EXCEPT ![Len(ld_stack)].i = @ + 1]

\* TopLevel::Function
run_function_item ==
    /\ TopItem.item = "Function"
    /\ ld_functions' = ld_functions \cup {TopItem.arg}
    /\ ld_stack' = Advanced
    /\ UNCHANGED <<ld_fs, loaded_modules, ld_pc, ld_runs, ld_main_calls, ldFrame>>

\* TopLevel::Import: load_module(path) up to its call of run on the file's
\* items; the loop of the importing run goes on when that run has returned
load_module ==
    /\ TopItem.item = "Import"
    /\ LET path == Components(TopItem.arg)   \* the string, as loaded_modules holds it
           used_path == first_existing(ld_fs, possible_paths(TopItem.arg), 1)
       IN IF path \in loaded_modules
          THEN /\ ld_stack' = Advanced
               /\ UNCHANGED <<loaded_modules, ld_pc, ld_runs>>
          ELSE IF used_path = <<>>
          THEN \* Err("Module not found"): the `?` of every run in progress returns it
               /\ loaded_modules' = loaded_modules \cup {path}
               /\ ld_stack' = <<>>
               /\ ld_pc' = "err"
               /\ UNCHANGED ld_runs
          ELSE IF used_path \in loaded_modules
          THEN /\ loaded_modules' = loaded_modules \cup {path}
               /\ ld_stack' = Advanced
               /\ UNCHANGED <<ld_pc, ld_runs>>
          ELSE /\ loaded_modules' = loaded_modules \cup {path, used_path}
               /\ ld_stack' = Append(Advanced, RunFrame(used_path))
               /\ ld_runs' = [ld_runs EXCEPT ![used_path] = @ + 1]
               /\ UNCHANGED ld_pc
    /\ UNCHANGED <<ld_fs, ld_functions, ld_main_calls, ldFrame>>

\* after the last item: main is called if a function of that name is
\* registered, and run returns
run_return ==
    /\ ld_pc = "running" /\ TopItem = NoItem
    /\ ld_main_calls' = IF "main" \in ld_functions THEN ld_main_calls + 1 ELSE ld_main_calls
    /\ ld_stack' = SubSeq(ld_stack, 1, Len(ld_stack) - 1)
    /\ ld_pc' = IF Len(ld_stack) = 1 THEN "done" ELSE "running"
    /\ UNCHANGED <<ld_fs, loaded_modules, ld_functions, ld_runs, ldFrame>>

NextLoader ==
    \/ ld_run
    \/ run_function_item
    \/ load_module
    \/ run_return

\* the top-level items a file may hold
TopLevels ==
    {TImport(p) : p \in {"a", "b", "stdlib/b", "m", "absent"}} \cup {TFunction("main")}

ItemSeqs(n) == UNION {[1..k -> TopLevels] : k \in 0..n}

FileSystems ==
    {[f \in {ProgramFile} \cup ModuleFiles |->
        IF f = ProgramFile THEN prog ELSE IF f = ar_file(base_path, "a") THEN a ELSE b] :
     prog \in ItemSeqs(MaxItems), a \in ItemSeqs(MaxModItems), b \in ItemSeqs(MaxModItems)}

(***************************************************************************)
(*      ONE COLLECTION, CALL BY CALL  (src/src/gc.rs, collect and mark)    *)
(* mark is recursive: mk_stack holds, for mark_phase and for every call of *)
(* mark that is in progress, the refs its for loop goes over and the       *)
(* position of the loop.                                                   *)
(***************************************************************************)
MaxMarkId == 2    \* ids of the heaps one collection is stepped through

MarkLoop(refs) == [refs |-> refs, i |-> 1]

\* a collector holding the heap h and the roots rs, collect() not yet called
NewMark(h, rs) ==
    /\ mk_heap = h
    /\ mk_roots = rs
    /\ mk_stack = <<>>
    /\ mk_pc = "new"
    /\ mk_visits = [id \in DOMAIN h |-> 0]

\* collect() up to the loop of mark_phase: the marks are reset, roots is cloned
mk_collect ==
    /\ mk_pc = "new"
    /\ mk_heap' = [id \in DOMAIN mk_heap |-> [mk_heap[id] EXCEPT !.marked = FALSE]]
    /\ mk_stack' = <<MarkLoop(mk_roots)>>
    /\ mk_pc' = "marking"
    /\ UNCHANGED <<mk_roots, mk_visits, mkFrame>>

MarkTop == mk_stack[Len(mk_stack)]

\* the innermost loop is at one of its refs
MarkAtRef == mk_pc = "marking" /\ MarkTop.i <= Len(MarkTop.refs)

MarkAdvanced == [mk_stack EXCEPT ![Len(mk_stack)].i = @ + 1]

\* the test of mark as it would be if no object counted as marked
already_marked_never(h, id) == FALSE

\* if h.marked { return; }
already_marked(h, id) == h[id].marked

\* self.mark(id) from a loop, up to its return or to its own loop: nothing for
\* an id that is absent or already marked
mk_mark ==
    /\ MarkAtRef
    /\ LET id == MarkTop.refs[MarkTop.i]
       IN IF id \notin DOMAIN mk_heap \/ already_marked(mk_heap, id)
          THEN /\ mk_stack' = MarkAdvanced
               /\ UNCHANGED <<mk_heap, mk_visits>>
          ELSE /\ mk_heap' = [mk_heap EXCEPT ![id].marked = TRUE]
               /\ mk_stack' = Append(MarkAdvanced, MarkLoop(Children(mk_heap[id].data)))
               /\ mk_visits' = [mk_visits EXCEPT ![id] = @ + 1]
    /\ UNCHANGED <<mk_roots, mk_pc, mkFrame>>

\* the loop of a call of mark has gone over its refs: the call returns
mk_mark_return ==
    /\ mk_pc = "marking" /\ ~MarkAtRef /\ Len(mk_stack) > 1
    /\ mk_stack' = SubSeq(mk_stack, 1, Len(mk_stack) - 1)
    /\ UNCHANGED <<mk_heap, mk_roots, mk_pc, mk_visits, mkFrame>>

\* mark_phase's loop has gone over the roots: sweep_phase, and collect returns
mk_sweep ==
    /\ mk_pc = "marking" /\ ~MarkAtRef /\ Len(mk_stack) = 1
    /\ mk_heap' = sweep_phase(mk_heap)
    /\ mk_stack' = <<>>
    /\ mk_pc' = "done"
    /\ UNCHANGED <<mk_roots, mk_visits, mkFrame>>

NextMark ==
    \/ mk_collect
    \/ mk_mark
    \/ mk_mark_return
    \/ mk_sweep

\* Objects of the stepped heaps: refs to themselves, to each other, to absent
\* ids, two refs in one array, a ref in a struct field.
MarkIds == 1..MaxMarkId

MarkPayloads ==
    {GcArray(<<>>)}
    \cup {GcArray(<<GcRef(i), GcInt(7), GcRef((i % MaxMarkId) + 1)>>) : i \in MarkIds}
    \cup {GcStruct("S", [f \in {"next"} |-> GcRef(i)]) : i \in MarkIds}

\* heaps as alloc leaves them (no marks) and as an earlier collection leaves
\* them (every object marked)
MarkHeaps ==
    UNION {[D -> {[marked |-> m, data |-> obj] : obj \in MarkPayloads}] :
              D \in SUBSET MarkIds, m \in BOOLEAN}

\* roots as add_root leaves them: no id twice
MarkRoots ==
    {<<>>} \cup {<<i>> : i \in MarkIds} \cup {rs \in MarkIds \X MarkIds : rs[1] # rs[2]}

(***************************************************************************)
(*        TAGGED WORDS OF THE RUNTIME  (src/self-host/runtime.rs)          *)
(***************************************************************************)
NewTagged(word) ==
    /\ tg_in = word
    /\ tg_tagged = <<>>
    /\ tg_back = <<>>
    /\ tg_isint = <<>>
    /\ tg_class = <<>>

\* the classes of the runtime's dispatch on a word: int, pointer, null
classify(val) ==
    {c \in {"int", "ptr", "null"} :
        \/ c = "int" /\ is_int(val)
        \/ c = "ptr" /\ is_ptr(val)
        \/ c = "null" /\ val = 0}

\* from_int(n)
tagged_from_int ==
    /\ tg_tagged = <<>>
    /\ tg_tagged' = <<from_int(tg_in)>>
    /\ UNCHANGED <<tg_in, tg_back, tg_isint, tg_class, tgFrame>>

\* to_int(v) of the tagged word
tagged_to_int ==
    /\ tg_tagged # <<>>
    /\ tg_back = <<>>
    /\ tg_back' = <<to_int(tg_tagged[1])>>
    /\ UNCHANGED <<tg_in, tg_tagged, tg_isint, tg_class, tgFrame>>

\* is_int(v) of the tagged word
tagged_is_int ==
    /\ tg_tagged # <<>>
    /\ tg_isint = <<>>
    /\ tg_isint' = <<is_int(tg_tagged[1])>>
    /\ UNCHANGED <<tg_in, tg_tagged, tg_back, tg_class, tgFrame>>

\* is_int / is_ptr of the raw word
tagged_classify ==
    /\ tg_class = <<>>
    /\ tg_class' = <<classify(tg_in)>>
    /\ UNCHANGED <<tg_in, tg_tagged, tg_back, tg_isint, tgFrame>>

NextTagged ==
    \/ tagged_from_int
    \/ tagged_to_int
    \/ tagged_is_int
    \/ tagged_classify

(***************************************************************************)
(* Specifications: every component starts as constructed; one component    *)
(* runs, the others stay as they are.                                      *)
(***************************************************************************)
NewRuntime ==
    /\ NewJit /\ NewTrace /\ NewMutexes /\ NewAtomics /\ NewJitCode /\ NewMark(EmptyMap, <<>>)
    /\ NewClones

NewExt == NewRuntime /\ NewLoader(EmptyMap) /\ NewTagged(0)

NewCore == NewGC /\ NewChannels /\ NewWorkers /\ NewVM(<<>>) /\ NewInterp(<<>>)

InitGC == NewCore /\ NewExt

SpecGC == InitGC /\ [][NextGC]_vars

SpecGCLong == InitGC /\ [][NextGCLong]_vars

SpecGCRefs == InitGC /\ [][NextGCRefs]_vars

InitChan == NewCore /\ NewExt

SpecChan == InitChan /\ [][NextChan]_vars

SpecTryRecv == InitChan /\ [][NextTryRecv]_vars

InitJoin == NewCore /\ NewExt

SpecJoin == InitJoin /\ [][NextJoin]_vars

InitVM ==
    /\ NewGC /\ NewChannels /\ NewWorkers /\ NewInterp(<<>>) /\ NewExt
    /\ \E fs \in Programs : NewVM(fs)

SpecVM == InitVM /\ [][NextVM]_vars

InitFib ==
    NewGC /\ NewChannels /\ NewWorkers /\ NewVM(<<compile_fib>>) /\ NewInterp(<<>>) /\ NewExt

\* run's loop keeps iterating until it returns
SpecFib == InitFib /\ [][NextFib]_vars /\ WF_vars(vm_step)

InitInterp ==
    /\ NewGC /\ NewChannels /\ NewWorkers /\ NewVM(<<>>) /\ NewExt
    /\ \E ast \in Asts : NewInterp(ast)

SpecInterp == InitInterp /\ [][NextInterp]_vars

InitCalls ==
    /\ NewGC /\ NewChannels /\ NewWorkers /\ NewVM(<<>>) /\ NewExt
    /\ \E ast \in CallAsts : NewInterp(ast)

SpecCalls == InitCalls /\ [][NextCalls]_vars

InitLoops ==
    /\ NewGC /\ NewChannels /\ NewWorkers /\ NewVM(<<>>) /\ NewExt
    /\ \E ast \in LoopAsts : NewInterp(ast)

SpecLoops == InitLoops /\ [][NextLoops]_vars

InitVars ==
    /\ NewGC /\ NewChannels /\ NewWorkers /\ NewVM(<<>>) /\ NewExt
    /\ it_ast = <<>>
    /\ \E st \in ScopeStacks, gl \in VarMaps :
          interp = [stack |-> st, globals |-> gl, functions |-> EmptyMap,
                    out |-> <<>>, ev |-> <<>>, next_scope |-> Len(st)]
    /\ it_pc = "run"
    /\ it_ret = <<"None">>
    /\ it_call = <<>>

SpecVars == InitVars /\ [][NextVars]_vars

InitScopes ==
    /\ NewGC /\ NewChannels /\ NewWorkers /\ NewVM(<<>>) /\ NewExt
    /\ it_ast = ScopeFunctions
    /\ \E st \in ScopeInits :
          interp = [stack |-> st, globals |-> EmptyMap,
                    functions |-> register_functions([functions |-> EmptyMap],
                                                     ScopeFunctions, 1).functions,
                    out |-> <<>>, ev |-> <<>>, next_scope |-> Len(st)]
    /\ it_pc = "run"
    /\ it_ret = <<"None">>
    /\ it_call = <<>>

SpecScopes == InitScopes /\ [][NextScopes]_vars

InitJit == NewCore /\ NewExt

SpecJit == InitJit /\ [][NextJit]_vars

SpecJitReset == InitJit /\ [][NextJitReset]_vars

SpecTrace == InitJit /\ [][NextTrace]_vars

SpecJitCode == InitJit /\ [][NextJitCode]_vars

InitRuntime == NewCore /\ NewExt

SpecMutex == InitRuntime /\ [][NextMutex]_vars

SpecAtomic == InitRuntime /\ [][NextAtomic]_vars

InitLoader == NewCore /\ NewRuntime /\ NewTagged(0) /\ \E fs \in FileSystems : NewLoader(fs)

\* run and load_module are sequential code: a step that can be taken is taken
SpecLoader == InitLoader /\ [][NextLoader]_vars /\ WF_vars(NextLoader)

InitMark ==
    /\ NewCore /\ NewJit /\ NewTrace /\ NewMutexes /\ NewAtomics /\ NewJitCode /\ NewClones
    /\ NewLoader(EmptyMap) /\ NewTagged(0)
    /\ \E h \in MarkHeaps, rs \in MarkRoots : NewMark(h, rs)

\* collect() is sequential code: a step that can be taken is taken
SpecMark == InitMark /\ [][NextMark]_vars /\ WF_vars(NextMark)

InitTagged ==
    /\ NewCore /\ NewRuntime /\ NewLoader(EmptyMap)
    /\ \E word \in Words : NewTagged(word)

SpecTagged == InitTagged /\ [][NextTagged]_vars

(***************************************************************************)
(* Collector properties.                                                   *)
(***************************************************************************)
RECURSIVE ReachFrom(_, _)
ReachFrom(h, S) ==
    LET nxt == S \cup {c \in DOMAIN h : \E p \in S : c \in RefTargets(h[p].data)}
    IN IF nxt = S THEN S ELSE ReachFrom(h, nxt)

\* The present objects reachable from the root set.
Reachable(h, rs) == ReachFrom(h, Range(rs) \cap DOMAIN h)

\* C1: after collect(), every object that was reachable from the root set
\* (transitively through Refs in array elements and struct fields) when collect
\* was entered is still present, with its payload unchanged.
C1_ReachableSurvive ==
    gc_op = "collect" =>
        \A id \in Reachable(gc_pre, roots) :
            id \in DOMAIN heap /\ heap[id].data = gc_pre[id].data

\* A collection that kept a struct which is not itself a root, next to a root.
C1_Witness ==
    /\ gc_op = "collect"
    /\ \E id \in DOMAIN heap :
          /\ id \notin Range(roots)
          /\ heap[id].data.kind = "Struct"
          /\ \E r \in Range(roots) \cap DOMAIN heap : id \in RefTargets(heap[r].data)

\* C2: immediately after collect(), every allocated id that was not reachable
\* from the root set is absent (get returns None), cycles included.
C2_UnreachableAbsent ==
    gc_op = "collect" =>
        \A id \in 1..(next_id - 1) :
            id \notin Reachable(gc_pre, roots) => get(id) = <<"None">>

\* A collection that removed an unrooted two-object cycle 1 <-> 2.
C2_Witness ==
    /\ gc_op = "collect"
    /\ DOMAIN gc_pre = {1, 2}
    /\ 2 \in RefTargets(gc_pre[1].data)
    /\ 1 \in RefTargets(gc_pre[2].data)
    /\ get(1) = <<"None">> /\ get(2) = <<"None">>

C4_SingleProducerFifo ==
    \A id \in DOMAIN chan : \A t \in DOMAIN prod :
        sentBy[id] = {t} =>
            /\ recvd[id] \o chan[id].queue = SubSeq(prod[t].plan, 1, prod[t].sent)
            /\ (prod[t].done /\ chan[id].queue = <<>>) => recvd[id] = prod[t].plan

\* The consumer has received the two values of a finished single producer.
C4_Witness ==
    \E id \in DOMAIN chan : \E t \in DOMAIN prod :
        /\ sentBy[id] = {t}
        /\ prod[t].done
        /\ Len(prod[t].plan) >= 2
        /\ recvd[id] = prod[t].plan

\* C6: channel_recv on a created channel returns None only when nothing is
\* queued and every sender is gone (the manager's removed by close_channel,
\* every clone dropped by its thread); by then every value sent was delivered
\* in order; and with nothing queued and a sender alive the call stays blocked.
C6_RecvNoneOnlyDisconnected ==
    /\ \A id \in receivers :
          ch_ret = <<"channel_recv", id, "None", 0>> =>
              /\ chan[id].queue = <<>>
              /\ chan[id].nsenders = 0
              /\ id \notin senders
              /\ \A t \in DOMAIN prod : prod[t].ch = id => prod[t].done
              /\ recvd[id] = sentlog[id]
    /\ (main_pc[1] = "recv" /\ chan[main_pc[2]].queue = <<>>
          /\ (main_pc[2] \in senders
                \/ \E t \in DOMAIN prod : prod[t].ch = main_pc[2] /\ ~prod[t].done))
         => ~ENABLED channel_recv_return

\* None returned after two values were delivered.
C6_Witness ==
    \E id \in receivers :
        /\ ch_ret = <<"channel_recv", id, "None", 0>>
        /\ Len(recvd[id]) >= 2

(***************************************************************************)
(* Join properties.                                                        *)
(***************************************************************************)
JoinFailures == {<<"None">>, <<"Err", "Worker already joined">>}

\* C5: a worker is joined at most once.  Of the joins completed on a worker
\* id (join_worker, WorkerHandle::join) the first returned only after the
\* worker's thread had stopped and carries its single result (the failure if
\* the thread panicked); every later one is the failure outcome, and is given
\* without blocking: only a first join is ever blocked.  The same holds of
\* argon_thread_join, whose failure outcome is the tagged -1.
C5_JoinAtMostOnce ==
    /\ \A w \in DOMAIN joins :
          LET L == joins[w]
              o == wthread[w].outcome
          IN /\ \A k \in 2..Len(L) : L[k] \in JoinFailures
             /\ Len(L) >= 1 =>
                   /\ wthread[w].status = "finished"
                   /\ IF o[1] = "Ok"
                      THEN L[1] \in {<<"Some", o[2]>>, <<"Ok", o[2]>>}
                      ELSE L[1] \in {<<"None">>, <<"Err", "Thread panicked">>}
             /\ (jn_pc[1] \in {"join_worker", "handle_join"} /\ jn_pc[2] = w) => L = <<>>
    /\ \A i \in DOMAIN rjoins :
          LET L == rjoins[i]
              o == rthread[i].outcome
          IN /\ \A k \in 2..Len(L) : L[k] = from_int(-1)
             /\ Len(L) >= 1 =>
                   /\ rthread[i].status = "finished"
                   /\ L[1] = IF o[1] = "Ok" THEN o[2] ELSE from_int(-1)
             /\ (jn_pc[1] = "argon_thread_join" /\ jn_pc[2] = i) => L = <<>>

\* A worker and a runtime thread, each joined twice: the result, then the failure.
C5_Witness ==
    /\ 1 \in DOMAIN joins /\ joins[1] = << <<"Some", 5>>, <<"None">> >>
    /\ 1 \in DOMAIN rjoins /\ rjoins[1] = <<from_int(5), from_int(-1)>>

(***************************************************************************)
(* Bytecode VM properties.                                                 *)
(***************************************************************************)
\* C7: when a frame created by Call(f, argc) is ended by a Return it executes,
\* the stack the caller resumes with is one entry deeper than it was below the
\* argc arguments, that entry is the value Return popped, and the entries
\* below it are what they were when the Call was executed.
C7_CallReturnStackEffect ==
    vm_obs.kind = "Return" =>
        /\ Len(vm_stack) = vm_obs.base + 1
        /\ vm_stack[Len(vm_stack)] = vm_obs.result
        /\ SubSeq(vm_stack, 1, vm_obs.base) = vm_obs.below

\* C8: two completed host calls with equal name and arguments on one VM
\* returned equal values, whatever was called before each.
C8_CallDeterministic ==
    \A i, j \in DOMAIN vm_log :
        (vm_log[i].name = vm_log[j].name /\ vm_log[i].args = vm_log[j].args)
            => vm_log[i].result = vm_log[j].result

\* C9: with compile_fib as the only function, every call fib(n), n in
\* 0..MaxFibN, returns to the host, and the value returned is Int(F(n)) as
\* native_fib computes it: Int(55) for 10 and Int(610) for 15.
C9_FibAgreesWithNative ==
    /\ [](vm_pc # "panicked")
    /\ [](\A i \in DOMAIN vm_log :
            LET n == vm_log[i].args[1].v
            IN /\ vm_log[i].result = VInt(native_fib(n))
               /\ n = 0 => vm_log[i].result = VInt(0)
               /\ n = 1 => vm_log[i].result = VInt(1)
               /\ n = 10 => vm_log[i].result = VInt(55)
               /\ n = 15 => vm_log[i].result = VInt(610))
    /\ ((vm_pc = "running") ~> (vm_pc = "idle" /\ vm_log # <<>>))

C9_Witness ==
    /\ vm_pc = "idle"
    /\ functions = <<compile_fib>>
    /\ \E i \in DOMAIN vm_log :
          vm_log[i].name = "fib" /\ vm_log[i].args = <<VInt(15)>> /\ vm_log[i].result = VInt(610)

(***************************************************************************)
(* Interpreter properties.                                                 *)
(***************************************************************************)
\* positions of the events of kind e that concern scope frame s
EvAt(e, s) == {i \in DOMAIN interp.ev : interp.ev[i].e = e /\ interp.ev[i].scope = s}

\* the statements of the events of kind e of scope frame s among the first n
\* events, in order
RECURSIVE StmtsOf(_, _, _)
StmtsOf(e, s, n) ==
    IF n = 0 THEN <<>>
    ELSE IF interp.ev[n].e = e /\ interp.ev[n].scope = s
    THEN Append(StmtsOf(e, s, n - 1), interp.ev[n].stmt)
    ELSE StmtsOf(e, s, n - 1)

ScopesPushed == {interp.ev[i].scope : i \in {j \in DOMAIN interp.ev : interp.ev[j].e = "push"}}

\* C10: once run is over, every scope frame that was pushed was exited once;
\* the statements d1..dn deferred in it until then were run at its exit in the
\* order dn..d1, and only after every statement of its body that executed
\* (the last of which may be a return, a break or a failing statement).
C10_DeferredRunReversedAfterBody ==
    it_pc = "done" =>
        \A s \in ScopesPushed \cup {0} :
            /\ s = 0 => EvAt("defer", s) = {}     \* nothing is deferred in the bottom frame
            /\ s # 0 => Cardinality(EvAt("exit", s)) = 1
            /\ s # 0 =>
               LET x == CHOOSE i \in EvAt("exit", s) : TRUE
                   d == StmtsOf("defer", s, x)
                   ran == StmtsOf("run", s, Len(interp.ev))
               IN /\ Len(ran) = Len(d)
                  /\ \A i \in DOMAIN d : ran[i] = d[Len(d) + 1 - i]
                  /\ \A b \in EvAt("body", s) : b < x
                  /\ \A r \in EvAt("run", s) : x < r

\* a scope deferred two different statements, its body then returned, and both
\* were run
C10_Witness ==
    /\ it_pc = "done"
    /\ \E s \in ScopesPushed :
          \E d1, d2 \in EvAt("defer", s), b \in EvAt("body", s) :
              /\ d1 < d2 /\ d2 < b
              /\ interp.ev[d1].stmt # interp.ev[d2].stmt
              /\ interp.ev[b].stmt.k = "Return"
              /\ Cardinality(EvAt("run", s)) = 2

\* the deferred return statements that were run at the exit of scope frame s
DeferredReturns(s) == {r \in EvAt("run", s) : interp.ev[r].stmt.k = "Return"}

\* C11: when a deferred statement of main's own scope frame (frame 1) is a
\* `return b`, main yields b (the b of the last such statement run), whatever
\* its body produced before, a `return a` included.
C11_DeferredReturnSupersedes ==
    (it_pc = "done" /\ DeferredReturns(1) # {}) =>
        LET last == CHOOSE r \in DeferredReturns(1) : \A q \in DeferredReturns(1) : q <= r
        IN it_ret = <<"Ok", ValInt(interp.ev[last].stmt.value[1].n)>>

\* C18: when the first statement of main's body calls an undefined function
\* and other statements follow it, the diagnostic is printed and the second
\* statement of the body is executed too.
C18_LookupFailureContained ==
    (/\ it_pc = "done"
     /\ Len(it_ast[2].body) >= 2
     /\ it_ast[2].body[1] = SExpr(ECall("undefined_fn", <<>>))) =>
        /\ "Runtime Error: Undefined function: undefined_fn" \in Range(interp.out)
        /\ \E k \in EvAt("body", 1) : k > 2 /\ interp.ev[k].stmt = it_ast[2].body[2]

\* C19: whatever the files import (each other, themselves, the program that
\* is run, the same path again), no file's top-level items are gone over more
\* than once, and the run comes to an end.
C19_ModulesLoadedOnce ==
    /\ [](\A f \in DOMAIN ld_runs : ld_runs[f] <= 1)
    /\ <>(ld_pc \in {"done", "err"})

(***************************************************************************)
(* JIT properties                                                          *)
(***************************************************************************)
\* C12 as stated: record_call(name) adds exactly one to name's call count and
\* returns true exactly on the call that brings the count to hot_threshold
\* (false on every other call).
C12_TrueOnlyOnTheNthCall ==
    jit_ret.op = "record_call" =>
        /\ jit.call_counts[jit_ret.name] = jit_calls[jit_ret.name]
        /\ jit_ret.ret <=> (jit_calls[jit_ret.name] = jit.hot_threshold)

\* C12 amended: record_call(name) adds exactly one to name's call count and
\* returns true exactly when the count it has just reached is at least
\* hot_threshold: false on the first N-1 calls, true on the N-th and on every
\* later call.
C12_TrueFromTheNthCallOn ==
    jit_ret.op = "record_call" =>
        /\ jit.call_counts[jit_ret.name] = jit_calls[jit_ret.name]
        /\ jit_ret.ret <=> (jit_calls[jit_ret.name] >= jit.hot_threshold)

\* a call after the one that reached a threshold of 2 has just returned true
C12_Witness ==
    /\ jit_ret.op = "record_call" /\ jit_ret.ret
    /\ jit.hot_threshold = 2
    /\ jit_calls[jit_ret.name] = 3

C14_NthLoopStartsRecording ==
    [][tr_ret'.op = "record_loop" =>
        LET loc == tr_ret'.location
            k == tr_loops'[loc]
            N == tr.loop_threshold
        IN /\ k < N =>
                /\ ~tr_ret'.ret
                /\ tr'.is_recording = tr.is_recording
                /\ tr'.current_trace = tr.current_trace
           /\ (k = N /\ ~tr.is_recording) =>
                /\ tr_ret'.ret
                /\ tr'.is_recording
                /\ Len(tr'.current_trace) = 1
                /\ tr'.current_trace[1].start_location = loc
                /\ tr'.current_trace[1].operations = <<>>]_vars

\* the second call for one location starts the recording under a threshold of
\* 2 although the other location was counted too
C14_Witness ==
    /\ tr_ret.op = "record_loop" /\ tr_ret.ret
    /\ tr.loop_threshold = 2
    /\ tr_loops[tr_ret.location] = 2
    /\ \E other \in Locations \ {tr_ret.location} : tr_loops[other] >= 1
    /\ tr.is_recording /\ tr.current_trace[1].start_location = tr_ret.location

\* C15: every operation keeps the finalized traces it found as a prefix of the
\* list (ids and operations included) and only stop_recording adds to it; the
\* trace stop_recording finalizes, whose id it returns, holds exactly the
\* operations passed to record_op since its recording started, in call
\* order; record_op with no recording active changes nothing.
C15_TracesAppendOnly ==
    [][/\ Len(tr'.traces) >= Len(tr.traces)
       /\ SubSeq(tr'.traces, 1, Len(tr.traces)) = tr.traces
       /\ tr_ret'.op # "stop_recording" => tr'.traces = tr.traces
       /\ tr_ret'.op = "stop_recording" =>
             IF tr_active
             THEN /\ Len(tr'.traces) = Len(tr.traces) + 1
                  /\ tr_ret'.id = <<tr'.traces[Len(tr'.traces)].id>>
                  /\ tr'.traces[Len(tr'.traces)].operations = tr_since
             ELSE tr_ret'.id = <<>> /\ tr'.traces = tr.traces
       /\ (tr_ret'.op = "record_op" /\ ~tr_active) => tr' = tr]_vars

\* a second trace has just been finalized with two different operations
C15_Witness ==
    /\ tr_ret.op = "stop_recording"
    /\ Len(tr.traces) = 2
    /\ Len(tr_since) = 2 /\ tr_since[1] # tr_since[2]
    /\ tr.traces[2].operations = tr_since

(***************************************************************************)
(* Runtime mutex and atomics properties                                    *)
(***************************************************************************)
\* C16: argon_mutex_lock on an existing mutex returns tagged 1 (the word 3)
\* and holds nothing when it returns: the underlying lock is held only by a
\* thread inside the call, which can always go on to release it, so a thread
\* waiting in a lock call is never kept out by a thread that is between its
\* lock and its unlock (the same thread included).
C16_LockHoldsNothing ==
    /\ \A t \in MuThreads :
          (mu_ret[t].op = "lock" /\ mu_ret[t].id \in {2 * i + 1 : i \in 0..mu_ret[t].len - 1})
              => mu_ret[t].val = 3
    /\ \A m \in DOMAIN MUTEXES :
          MUTEXES[m] # 0 =>
              /\ mu_pc[MUTEXES[m]] = [at |-> "guard", idx |-> m]
              /\ ENABLED argon_mutex_lock_return(MUTEXES[m])
    /\ \A t \in MuThreads :
          mu_pc[t].at = "lock" =>
              \/ ENABLED mutex_lock(t)
              \/ \E u \in MuThreads \ {t} : ENABLED argon_mutex_lock_return(u)

\* two threads are both between lock and unlock on the same mutex, one of
\* them after locking it twice, and the underlying lock is free
C16_Witness ==
    \E m \in DOMAIN MUTEXES :
        /\ MUTEXES[m] = 0
        /\ \A t \in MuThreads : mu_held[t][m] >= 1 /\ mu_ret[t].op = "lock" /\ mu_ret[t].val = 3
        /\ \E t \in MuThreads : mu_held[t][m] = 2

\* the value of atomic idx after the first k logged accesses, applied one
\* after the other: add adds, store sets, cas sets when the value is the
\* expected one
RECURSIVE SeqVal(_, _)
SeqVal(idx, k) ==
    IF k = 0 THEN at_init[idx]
    ELSE IF at_log[k].idx # idx THEN SeqVal(idx, k - 1)
    ELSE IF at_log[k].op = "add" THEN SeqVal(idx, k - 1) + at_log[k].a
    ELSE IF at_log[k].op = "store" THEN at_log[k].a
    ELSE IF at_log[k].op = "cas" /\ SeqVal(idx, k - 1) = at_log[k].a THEN at_log[k].b
    ELSE SeqVal(idx, k - 1)

\* C17: the concurrent calls behave as if applied one at a time in some order
\* (the order of at_log): every atomic holds the value that order gives, so
\* no addition is lost; each argon_atomic_add returned the (tagged) value just
\* before its own addition; each argon_atomic_cas(a, e, n) returned tagged 1
\* and installed n exactly when the value was e, else tagged 0 with the value
\* unchanged.
C17_AtomicsLinearizable ==
    /\ \A idx \in DOMAIN ATOMICS : ATOMICS[idx] = SeqVal(idx, Len(at_log))
    /\ \A k \in DOMAIN at_log :
          /\ at_log[k].op = "add" => at_log[k].ret = 2 * SeqVal(at_log[k].idx, k - 1) + 1
          /\ at_log[k].op = "cas" =>
                at_log[k].ret = (IF SeqVal(at_log[k].idx, k - 1) = at_log[k].a THEN 3 ELSE 1)
    /\ \A t \in AtThreads : at_pc[t].k > 0 => at_pc[t].val = at_log[at_pc[t].k].ret

\* two additions of different amounts, the second by a thread that has not
\* returned yet when the other thread's cas succeeds on the sum
C17_Witness ==
    /\ Len(at_log) = 3
    /\ at_log[1].op = "add" /\ at_log[2].op = "add" /\ at_log[1].a # at_log[2].a
    /\ at_log[3].op = "cas" /\ at_log[3].ret = 3
    /\ at_pc[1].k = 2 /\ at_log[2].ret = 2 * (at_init[1] + at_log[1].a) + 1
    /\ at_pc[2].k = 3
    /\ ATOMICS[1] = at_log[3].b

(***************************************************************************)
(*                       Tagged-word properties                            *)
(***************************************************************************)
\* C20: for every integer n that fits one bit less than the word,
\* to_int(from_int(n)) = n and is_int(from_int(n)); and every word falls in
\* exactly one of the classes int, pointer, null (word = 0), a non-zero word
\* with low bit 0 being a pointer and not an int.
C20_TaggedRoundTrip ==
    /\ (tg_back # <<>> /\ tg_in \in TaggableInts) => tg_back[1] = tg_in
    /\ (tg_isint # <<>> /\ tg_in \in TaggableInts) => tg_isint[1]
    /\ tg_class # <<>> =>
          /\ Cardinality(tg_class[1]) = 1
          /\ (tg_in # 0 /\ tg_in % 2 = 0) => tg_class[1] = {"ptr"}

\* the smallest taggable integer (negative, even, non-zero) has made the round
\* trip and has been classified as a raw word
C20_Witness ==
    /\ tg_in = -Pow2(WordBits - 2)
    /\ tg_tagged = <<1 - Pow2(WordBits - 1)>>
    /\ tg_back = <<tg_in>>
    /\ tg_isint = <<TRUE>>
    /\ tg_class = <<{"ptr"}>>

(***************************************************************************)
(*                       Scope-stack properties                            *)
(***************************************************************************)
\* frames of stack st that bind name
BoundIn(st, name) == {j \in 1..Len(st) : name \in DOMAIN st[j].vars}
Innermost(S) == CHOOSE j \in S : \A k \in S : k <= j
\* frame j binds name m to the same value (or not at all) in a and in b
SameBinding(a, b, j, m) ==
    /\ (m \in DOMAIN a[j].vars) <=> (m \in DOMAIN b[j].vars)
    /\ m \in DOMAIN a[j].vars => a[j].vars[m] = b[j].vars[m]
\* only the binding of name n in frame target differs between a and b
OnlyFrameBinding(a, b, target, n) ==
    /\ Len(a) = Len(b)
    /\ \A j \in 1..Len(a) : \A m \in VarNames :
          (j # target \/ m # n) => SameBinding(a, b, j, m)
\* the step is a set_var call
IsSetVar == it_call' # <<>> /\ it_ret' # <<"None">>

\* C21: set_var(n, v) overwrites n in the innermost frame that binds it, and
\* creates n in the current frame when no scope frame binds it; no other frame
\* and no other name changes, and get_var(n) then returns v.
C21_SetVarInnermostOrCurrent ==
    [][IsSetVar =>
        LET n == it_call'[1]
            v == it_call'[2]
            B == BoundIn(interp.stack, n)
            target == IF B # {} THEN Innermost(B) ELSE Len(interp.stack)
        IN /\ OnlyFrameBinding(interp.stack, interp'.stack, target, n)
           /\ n \in DOMAIN interp'.stack[target].vars
           /\ interp'.stack[target].vars[n] = v
           /\ it_ret' = <<"Ok", v>>]_vars

\* C21 (amended): as above when a scope frame binds n; when none does and n
\* is a global, the global is overwritten and no frame changes; when n is
\* bound nowhere it is created in the current frame.  Nothing else changes
\* and get_var(n) returns v.
C21_SetVarInnermostGlobalOrCurrent ==
    [][IsSetVar =>
        LET n == it_call'[1]
            v == it_call'[2]
            B == BoundIn(interp.stack, n)
            glob == B = {} /\ n \in DOMAIN interp.globals
            target == IF B # {} THEN Innermost(B) ELSE Len(interp.stack)
        IN /\ it_ret' = <<"Ok", v>>
           /\ \A m \in VarNames \ {n} :
                 /\ (m \in DOMAIN interp.globals) <=> (m \in DOMAIN interp'.globals)
                 /\ m \in DOMAIN interp.globals => interp.globals[m] = interp'.globals[m]
           /\ IF glob
              THEN /\ interp'.stack = interp.stack
                   /\ interp'.globals[n] = v
              ELSE /\ OnlyFrameBinding(interp.stack, interp'.stack, target, n)
                   /\ n \in DOMAIN interp'.stack[target].vars
                   /\ interp'.stack[target].vars[n] = v
                   /\ (n \in DOMAIN interp.globals) <=> (n \in DOMAIN interp'.globals)
                   /\ n \in DOMAIN interp.globals => interp.globals[n] = interp'.globals[n]]_vars

\* set_var has overwritten a binding of the outer frame from inside a frame
\* that does not bind the name, and a global of the same name kept its value
C21_Witness ==
    /\ it_call = <<"x", ValInt(2)>>
    /\ it_ret = <<"Ok", ValInt(2)>>
    /\ Len(interp.stack) = 2
    /\ BoundIn(interp.stack, "x") = {1}
    /\ interp.stack[1].vars["x"] = ValInt(2)
    /\ "x" \in DOMAIN interp.globals /\ interp.globals["x"] = ValInt(1)
    /\ "y" \in DOMAIN interp.stack[2].vars

(***************************************************************************)
(*                  Collector properties, continued                        *)
(***************************************************************************)
\* C22: when every alloc is given a payload whose refs name present ids, every
\* Ref stored in a present object names a present id, in every state reached
\* by alloc, add_root, remove_root, clear_roots and collect (the collections
\* alloc starts at the threshold included).
C22_NoDanglingRefs ==
    \A id \in DOMAIN heap : RefTargets(heap[id].data) \subseteq DOMAIN heap

\* a collection started by alloc at the threshold has swept the other objects
\* and kept the rooted new object together with the object it refers to
C22_Witness ==
    /\ gc_op = "alloc" /\ gc_ret = threshold /\ allocated = 0
    /\ DOMAIN heap = {1, threshold}
    /\ RefTargets(heap[threshold].data) = {1}
    /\ roots = <<threshold>>

\* C23: the allocation counter reported by stats() is the number of alloc
\* calls since collect last ran (called by the host or by alloc at the
\* threshold): one more per alloc, zero right after a collect, and below the
\* threshold whenever alloc has returned.
C23_CounterCountsAllocs ==
    /\ stats[2] = gc_since
    /\ gc_op = "collect" => stats[2] = 0
    /\ gc_op = "alloc" => stats[2] < threshold

\* the first alloc after a collection that left nothing: one object, counter 1
C23_Witness ==
    /\ gc_op = "alloc"
    /\ gc_ret = threshold + 1
    /\ stats = <<1, 1>>

(***************************************************************************)
(*                       Native-code properties                            *)
(***************************************************************************)
\* a SimpleFunction read as arithmetic on the two's-complement word: the
\* steps of a Custom body are applied left to right.  A division by zero
\* yields 0, as everywhere in the language.
ArithStep(op, a) ==
    CASE op.op = "Add" -> wrapping(a + op.n)
      [] op.op = "Sub" -> wrapping(a - op.n)
      [] op.op = "Mul" -> wrapping(a * op.n)
      [] op.op = "Div" -> IF op.n = 0 THEN 0 ELSE wrapping(TruncDiv(a, op.n))
RECURSIVE ArithFold(_, _, _)
ArithFold(ops, i, a) ==
    IF i > Len(ops) THEN a ELSE ArithFold(ops, i + 1, ArithStep(ops[i], a))
Arith(body, x) ==
    CASE body.kind = "Identity" -> x
      [] body.kind = "Double" -> wrapping(2 * x)
      [] body.kind = "Square" -> wrapping(x * x)
      [] body.kind = "Increment" -> wrapping(x + 1)
      [] body.kind = "Negate" -> wrapping(-x)
      [] body.kind = "Custom" -> ArithFold(body.ops, 1, x)

\* C24: after a successful compile_simple_function(name, body),
\* call_compiled(name, x) returns the body's arithmetic on x with
\* two's-complement wrap.
C24_CompiledEqualsBody ==
    (jc_ret # <<>> /\ jc_ret[1].name \in DOMAIN jc_body) =>
        jc_ret[1].ret = <<"Some", Arith(jc_body[jc_ret[1].name], jc_ret[1].arg)>>

(***************************************************************************)
(*                     Function-call properties                            *)
(***************************************************************************)
\* statements that end a body with a Break or Continue signal, or with Return
SignalStmts == {SBreak, SContinue, SIf(EBool(TRUE), <<SBreak>>), SBlock(<<SContinue>>)}
ReturnStmts == {SReturn(ENumber(7))}
\* the body ends with a Break or Continue signal: a signal statement is reached
\* before any Return
SignalEscapes(body) ==
    \E i \in 1..Len(body) :
        /\ body[i] \in SignalStmts
        /\ \A j \in 1..(i - 1) : body[j] \notin SignalStmts \cup ReturnStmts
\* the lines printed by the caller
CallerLines == SelectSeq(interp.out, LAMBDA l : l # "50")

\* C25: when a Break or Continue signal escapes the body of a function called
\* inside a loop, each call yields Null and the caller's loop is neither ended
\* nor restarted: both iterations run to their last statement, and so does
\* the statement after the loop.
C25_EscapingSignalDropped ==
    (it_pc = "done" /\ Len(it_ast) = 2 /\ it_ast[1].name = "e"
        /\ SignalEscapes(it_ast[1].body)) =>
        CallerLines = <<"null", "1", "null", "2", "100">>

\* the callee deferred a return and then broke out of its body
C25_Witness ==
    /\ it_pc = "done"
    /\ it_ast[1].name = "e"
    /\ it_ast[1].body = <<SDefer(SReturn(ENumber(9))), SBreak>>
    /\ CallerLines = <<"null", "1", "null", "2", "100">>

(***************************************************************************)
(*                  Bytecode VM properties, continued                      *)
(***************************************************************************)
\* C26: when a frame created by Call runs past the end of its code, the
\* caller resumes as after a Return of Null: the frame is gone, the stack is
\* cut to the frame's base pointer and one entry, Null, is on top of what was
\* below the arguments.
C26_ImplicitReturnAsReturnNull ==
    vm_obs.kind = "End" =>
        /\ Len(frames) = Len(frame_obs)
        /\ Len(vm_stack) = vm_obs.base + 1
        /\ vm_stack[Len(vm_stack)] = VNull
        /\ SubSeq(vm_stack, 1, vm_obs.base) = vm_obs.below

\* C27: whenever call has returned to the host (by a Return in the entry
\* frame, by Halt, or by the entry function running past its code), no call
\* frame remains and the value stack is as deep as it was when call was
\* entered.
C27_CallLeavesVMAsFound ==
    (vm_pc = "idle" /\ vm_log # <<>>) =>
        /\ frames = <<>>
        /\ Len(vm_stack) = vm_bp

\* the step creates a call frame
FrameCreated == Len(frames') = Len(frames) + 1
\* slots base+1 .. base+n of stack s (locals 0..n-1 of a frame based at base)
LocalsAt(s, base, n) == [i \in 1..n |-> s[base + i]]

\* C28: a frame created for f with as many arguments as f's arity, by call
\* or by Call(f, argc), has the stack position of the first argument as base
\* pointer; locals 0..arity-1 are the arguments in the order they were pushed,
\* the locals from arity on are Null, the stack is base pointer + total_locals
\* deep, what was below the arguments is untouched, and the caller's frame
\* stays where it was, with its ip after the Call.
C28_FrameCreation ==
    [][FrameCreated =>
        LET fr == frames'[Len(frames')]
            f == functions[fr.func_idx + 1]
            op == NextOp(functions, frames)
            args == IF vm_pc = "idle" THEN vm_cur'.args
                    ELSE SubSeq(vm_stack, Len(vm_stack) - op.b + 1, Len(vm_stack))
            base == Len(vm_stack) - (IF vm_pc = "idle" THEN 0 ELSE op.b)
        IN Len(args) = f.arity =>
            /\ fr.bp = base
            /\ fr.ip = 0
            /\ Len(vm_stack') = base + f.locals
            /\ LocalsAt(vm_stack', base, f.arity) = args
            /\ \A i \in (f.arity + 1)..f.locals : vm_stack'[base + i] = VNull
            /\ SubSeq(vm_stack', 1, base) = SubSeq(vm_stack, 1, base)
            /\ vm_pc = "running" =>
                  /\ fr.func_idx = op.a
                  /\ SubSeq(frames', 1, Len(frames) - 1) = SubSeq(frames, 1, Len(frames) - 1)
                  /\ frames'[Len(frames)] =
                        [frames[Len(frames)] EXCEPT !.ip = frames[Len(frames)].ip + 1]]_vars

\* main has pushed its argument and executed Call(f, 1); f has one parameter
\* and two locals
C28_Witness ==
    /\ vm_pc = "running"
    /\ Len(frames) = 2
    /\ frames[1] = CallFrame(0, 2, 0)
    /\ frames[2] = CallFrame(1, 0, 1)
    /\ functions[2].arity = 1 /\ functions[2].locals = 2
    /\ vm_stack = <<VInt(3), VInt(3), VNull>>

\* C29: while a frame created by Call is on the call stack, the entries
\* below its base pointer (the locals and pending operands of its callers)
\* stay what they were when it was created, and they are still so when the
\* caller resumes after the callee's Return or end of code.
C29_CallerSlotsUntouched ==
    /\ vm_pc = "running" =>
          \A k \in DOMAIN frame_obs :
              frame_obs[k].viaCall =>
                  /\ Len(vm_stack) >= frame_obs[k].base
                  /\ SubSeq(vm_stack, 1, frame_obs[k].base) = frame_obs[k].below
    /\ vm_obs.kind \in {"Return", "End"} =>
          /\ Len(vm_stack) >= vm_obs.base
          /\ SubSeq(vm_stack, 1, vm_obs.base) = vm_obs.below

(***************************************************************************)
(*                  Interpreter properties, continued                      *)
(***************************************************************************)
\* how often stmt occurs in the sequence q
Occurrences(q, stmt) == Cardinality({i \in DOMAIN q : q[i] = stmt})
\* the deferred statements run at the exit of scope frame s that are a
\* return, a break or a continue
DeferredSignals(s) ==
    {r \in EvAt("run", s) : interp.ev[r].stmt.k \in {"Return", "Break", "Continue"}}
\* the body of scope frame s ran only statements that produce no signal
QuietBody(s) ==
    \A b \in EvAt("body", s) : interp.ev[b].stmt.k \in {"Defer", "Print", "Let", "Assign"}

\* C30: once run is over, every statement that was deferred in a scope frame
\* has been executed exactly once at that frame's exit, also after a deferred
\* statement that produced a signal; and the signal of the exit is that of
\* the deferred statement that ran last among those that produced one (seen
\* at main's own frame, frame 1, when its body produced none: main yields
\* the value of that return, or Null after a break or continue).
C30_EveryDeferredRunsOnce ==
    it_pc = "done" =>
        /\ \A s \in ScopesPushed :
              LET d == StmtsOf("defer", s, Len(interp.ev))
                  ran == StmtsOf("run", s, Len(interp.ev))
              IN \A i \in DOMAIN d : Occurrences(ran, d[i]) = Occurrences(d, d[i])
        /\ (QuietBody(1) /\ DeferredSignals(1) # {}) =>
              LET last == CHOOSE r \in DeferredSignals(1) : \A q \in DeferredSignals(1) : q <= r
                  stmt == interp.ev[last].stmt
              IN it_ret = <<"Ok", IF stmt.k = "Return" /\ stmt.value # <<>>
                                   THEN ValInt(stmt.value[1].n) ELSE ValNull>>

(***************************************************************************)
(* Scope-stack balance.                                                    *)
(***************************************************************************)
\* the events e among q[a..b]
CountEv(q, e, a, b) == Cardinality({i \in a..b : q[i].e = e})

\* every scope pushed is popped between positions a and b of q
Nested(q, a, b) == CountEv(q, "push", a, b) = CountEv(q, "pop", a, b)

\* the scope pushed at position j is exited once, then popped once, and between
\* its push, its exit and its pop every scope pushed is popped
PushedScopeLeaves(q, j) ==
    \E x \in (j + 1)..Len(q) : \E k \in (x + 1)..Len(q) :
        /\ q[x].e = "exit" /\ q[x].scope = q[j].scope
        /\ q[k].e = "pop" /\ q[k].scope = q[j].scope
        /\ Nested(q, j + 1, x - 1)
        /\ Nested(q, x + 1, k - 1)
        /\ \A i \in 1..Len(q) : (q[i].e \in {"exit", "pop"} /\ q[i].scope = q[j].scope)
                                    => i \in {x, k}

ExecutedStmt == it_call = <<>> /\ it_call' # <<>>

\* C31: after a function call, if/else branch, block or while loop has finished,
\* normally or through Return, Break, Continue or a runtime error, the scope
\* stack has the depth it had before and holds the same frames, the bottom
\* frame included; every frame pushed meanwhile has been exited and popped,
\* each when the frames pushed above it were gone.
C31_ScopeStackBalanced ==
    [][ExecutedStmt =>
          /\ Len(interp'.stack) = Len(interp.stack)
          /\ \A i \in 1..Len(interp.stack) : interp'.stack[i].id = interp.stack[i].id
          /\ \A j \in 1..Len(interp'.ev) :
                /\ interp'.ev[j].e = "push" => PushedScopeLeaves(interp'.ev, j)
                /\ interp'.ev[j].e \in {"exit", "pop"}
                      => interp'.ev[j].scope >= Len(interp.stack)]_vars

\* a call made on a stack of two frames has returned from inside a while body:
\* the loop's frame, the if's frame and the function's frame are gone
C31_Witness ==
    /\ it_call = <<SPrint(ECall("g", <<>>))>>
    /\ it_ret = FlowOk
    /\ Len(interp.stack) = 2
    /\ interp.out = <<"20", "21">>
    /\ CountEv(interp.ev, "pop", 1, Len(interp.ev)) = 3

(***************************************************************************)
(* Break and Continue in nested loops.                                     *)
(***************************************************************************)
\* the enumerated part of the inner loop's body
InnerBody ==
    LET whole == it_ast[1].body[2].body[3].body
    IN SubSeq(whole, 3, Len(whole))

\* the signal a statement of LoopStmts raises: in the body, or when the body's
\* scope runs its deferred statements
SignalOf(stmt) ==
    CASE stmt \in {SBreak, SIf(EBool(TRUE), <<SBreak>>),
                   SBlock(<<SDefer(SPrint(ENumber(5))), SBreak>>),
                   SIf(EBool(TRUE), <<SDefer(SBreak)>>), SDefer(SBreak)} -> "Break"
      [] stmt \in {SContinue, SBlock(<<SContinue>>), SDefer(SContinue),
                   SIfElse(EBool(FALSE), <<SPrint(ENumber(6))>>, <<SContinue>>)} -> "Continue"
      [] stmt = SReturn(ENumber(7)) -> "Return"
      [] OTHER -> "None"

\* the statements of body that are executed: up to the first that signals at once
Executed(body) ==
    {i \in 1..Len(body) :
        \A j \in 1..(i - 1) : body[j].k = "Defer" \/ SignalOf(body[j]) = "None"}

\* the signals raised by one iteration over body, its scope exit included
Raised(body) == {SignalOf(body[i]) : i \in Executed(body)} \ {"None"}

\* the indices of q that hold one of the lines
LinesAt(q, lines) == {i \in 1..Len(q) : q[i] \in lines}

\* q restricted to the lines
RECURSIVE Restricted(_, _, _)
Restricted(q, lines, i) ==
    IF i > Len(q) THEN <<>>
    ELSE (IF q[i] \in lines THEN <<q[i]>> ELSE <<>>) \o Restricted(q, lines, i + 1)

\* what the loops print: the inner loop's j, the outer loop's i + 10, then 100
LoopLines == Restricted(interp.out, {"1", "2", "11", "12", "100"}, 1)

\* C32: Break and Continue are consumed by the innermost enclosing while loop.
\* With an inner loop whose body raises only Break (in the body, in a nested if
\* or block, or when the body's scope exits), the inner loop ends in its first
\* iteration and the outer loop goes on: 1, 11, 1, 12, 100; with only Continue
\* (or no signal) the inner loop re-evaluates its condition: 1, 2, 11, 1, 2, 12,
\* 100; with Break and Continue mixed the outer loop still runs both its
\* iterations and main its last statement; a Return raised in the body ends
\* both loops and the call yields its value.
C32_InnermostLoopConsumes ==
    it_pc = "done" =>
        /\ Raised(InnerBody) = {"Break"} => LoopLines = <<"1", "11", "1", "12", "100">>
        /\ Raised(InnerBody) \in {{"Continue"}, {}}
              => LoopLines = <<"1", "2", "11", "1", "2", "12", "100">>
        /\ "Return" \notin Raised(InnerBody)
              => Restricted(interp.out, {"11", "12", "100"}, 1) = <<"11", "12", "100">>
        /\ Raised(InnerBody) = {"Return"} => LoopLines = <<"1">> /\ it_ret = <<"Ok", ValInt(7)>>

(***************************************************************************)
(* main and imports.                                                       *)
(***************************************************************************)
\* the program that is run defines main and holds an import
DefinesMainAndImports ==
    /\ ProgramFile \in DOMAIN ld_fs
    /\ \E i \in DOMAIN ld_fs[ProgramFile] : ld_fs[ProgramFile][i] = TFunction("main")
    /\ \E i \in DOMAIN ld_fs[ProgramFile] : ld_fs[ProgramFile][i].item = "Import"

\* C33: while a program that defines main and holds imports is run, main has
\* not been called as long as the run of the program file is in progress (no
\* import calls it), and it has been called exactly once when that run has
\* returned without an error.
C33_MainCalledOnceAtTheEnd ==
    DefinesMainAndImports =>
        /\ ld_pc \in {"new", "running", "err"} => ld_main_calls = 0
        /\ ld_pc = "done" => ld_main_calls = 1

(***************************************************************************)
(* Termination of collect() and the traversal of mark.                     *)
(***************************************************************************)
\* mark_phase's loop has gone over the roots
MarkPhaseOver == mk_pc = "marking" /\ Len(mk_stack) = 1 /\ ~MarkAtRef

\* C34: collect() comes to its end on every heap, cyclic and self-referencing
\* ones included; while it marks, no object has its children collected twice,
\* and when the mark phase is over the children of every object reachable
\* from a root have been collected exactly once, those of the others never.
C34_CollectTerminatesVisitingOnce ==
    /\ <>(mk_pc = "done")
    /\ [](\A id \in DOMAIN mk_visits : mk_visits[id] <= 1)
    /\ [](MarkPhaseOver =>
            \A id \in DOMAIN mk_heap :
                mk_visits[id] = (IF id \in Reachable(mk_heap, mk_roots) THEN 1 ELSE 0))

\* the mark phase is over on a heap whose two objects refer to each other and
\* to themselves, with both ids rooted
C34_Witness ==
    /\ MarkPhaseOver
    /\ mk_roots = <<1, 2>>
    /\ DOMAIN mk_heap = {1, 2}
    /\ mk_heap[1].data = GcArray(<<GcRef(1), GcInt(7), GcRef(2)>>)
    /\ mk_heap[2].data = GcStruct("S", [f \in {"next"} |-> GcRef(1)])
    /\ mk_visits = [id \in {1, 2} |-> 1]

(***************************************************************************)
(* Object ids.                                                             *)
(***************************************************************************)
\* the ids alloc has returned so far
Returned_ids == 1..(next_id - 1)

\* C35: every alloc returns an id greater than all ids returned before (they
\* are the ids below next_id, and next_id never decreases), also after
\* collections; an id that was returned and whose object is gone designates
\* no object after any further operation: get on it stays absent.
C35_IdsNeverReused ==
    [][/\ next_id' >= next_id
       /\ gc_op' = "alloc" =>
             /\ gc_ret' \notin Returned_ids
             /\ gc_ret' \in 1..(next_id' - 1)
       /\ DOMAIN heap' \subseteq 1..(next_id' - 1)
       /\ \A id \in Returned_ids :
             get(id) = <<"None">> => id \notin DOMAIN heap']_vars

\* the second alloc has returned id 2 after the object of id 1 was swept
C35_Witness ==
    /\ gc_op = "alloc" /\ gc_ret = 2
    /\ get(1) = <<"None">>
    /\ get(2)[1] = "Some"

(***************************************************************************)
(* reset() of the JIT compiler.                                            *)
(***************************************************************************)
\* C36: reset() clears every call count and leaves the compiled functions,
\* the threshold and the enabled flag as they were, so that should_compile is
\* false for every name right after it; at any time should_compile(name)
\* requires that name was recorded at least hot_threshold times since the last
\* reset; and no step of record_call, reset, set_enabled, set_hot_threshold or
\* compile_simple_function makes a compiled name not compiled.
C36_ResetKeepsCompiled ==
    /\ [](\A name \in JitNames :
            should_compile(jit, name) =>
                jit_calls[name] >= 1 /\ jit_calls[name] >= jit.hot_threshold)
    /\ [][(jit_ret'.op = "reset" =>
               /\ jit'.call_counts = EmptyMap
               /\ jit'.compiled_functions = jit.compiled_functions
               /\ jit'.hot_threshold = jit.hot_threshold
               /\ jit'.enabled = jit.enabled
               /\ \A name \in JitNames : ~should_compile(jit', name))
           /\ (\A name \in JitNames : is_compiled(jit, name) => is_compiled(jit', name))]_vars

\* reset has just cleared the counts of a JIT that compiled f after two calls
\* of it: f is still compiled, g is not
C36_Witness ==
    /\ jit_ret.op = "reset"
    /\ is_compiled(jit, "f") /\ ~is_compiled(jit, "g")
    /\ jit.compiled_functions["f"].call_count = 2
    /\ jit.call_counts = EmptyMap
    /\ jit.enabled /\ jit.hot_threshold = 2

(***************************************************************************)
(* The recorder's state.                                                   *)
(***************************************************************************)
\* C37: is_recording is true exactly when there is a current trace, which is
\* exactly when a recording was started and not yet stopped, and there is at
\* most one current trace; record_loop called while a recording is active
\* returns false and leaves the current trace and the flag as they were;
\* stop_recording called with no recording active returns None and leaves
\* the finalized traces as they were.
C37_RecorderState ==
    /\ [](/\ tr.is_recording <=> tr.current_trace # <<>>
          /\ tr.is_recording <=> tr_active
          /\ Len(tr.current_trace) <= 1)
    /\ [][((tr_ret'.op = "record_loop" /\ tr.is_recording) =>
               /\ ~tr_ret'.ret
               /\ tr'.current_trace = tr.current_trace
               /\ tr'.is_recording)
           /\ ((tr_ret'.op = "stop_recording" /\ ~tr.is_recording) =>
               /\ tr_ret'.id = <<>>
               /\ tr'.traces = tr.traces
               /\ ~tr'.is_recording /\ tr'.current_trace = <<>>)]_vars

\* record_loop has returned false for a location that reached the threshold
\* while the trace of the other location was being recorded, an operation
\* already in it
C37_Witness ==
    /\ tr_ret.op = "record_loop" /\ ~tr_ret.ret
    /\ tr.loop_threshold >= 1
    /\ tr.loop_counts[tr_ret.location] >= tr.loop_threshold
    /\ tr.is_recording
    /\ tr.current_trace[1].start_location # tr_ret.location
    /\ Len(tr.current_trace[1].operations) = 1

(***************************************************************************)
(* Ids of the finalized traces.                                            *)
(***************************************************************************)
\* C38: the ids of the finalized traces increase strictly along the list (so
\* they are pairwise distinct), and when stop_recording returns an id,
\* get_trace of that id is the trace that was being recorded, now the last of
\* the list.
C38_FinalizedIdsFresh ==
    /\ [](\A i \in 1..Len(tr.traces) : \A j \in (i + 1)..Len(tr.traces) :
            tr.traces[i].id < tr.traces[j].id)
    /\ [][(tr_ret'.op = "stop_recording" /\ tr_ret'.id # <<>>) =>
              /\ get_trace(tr', tr_ret'.id[1]) = tr.current_trace
              /\ get_trace(tr', tr_ret'.id[1]) = <<tr'.traces[Len(tr'.traces)]>>]_vars

\* the second trace has just been finalized, with an operation in it and
\* none in the first
C38_Witness ==
    /\ tr_ret.op = "stop_recording" /\ tr_ret.id = <<1>>
    /\ Len(tr.traces) = 2
    /\ get_trace(tr, 0) = <<tr.traces[1]>>
    /\ get_trace(tr, 1) = <<tr.traces[2]>>
    /\ tr.traces[1].operations = <<>> /\ Len(tr.traces[2].operations) = 1

(***************************************************************************)
(* try_recv.                                                               *)
(***************************************************************************)
\* C39: a channel_try_recv that has been called can return at once, whatever
\* the other threads are doing: its return never waits for a step of a thread
\* that owns a clone of the receiver.
C39_TryRecvNeverWaits ==
    main_pc[1] = "try_recv" => ENABLED channel_try_recv_return

=========================================================================
